---------------------------- MODULE Spec2Model ----------------------------
(***************************************************************************)
(* Knowledge-Voice-Navigator: the search-and-ranking engine of the         *)
(* KnowledgeNavigator class (keyword extraction, heading search, content   *)
(* search, nearest heading, snippet, merge/rank/truncate, result cache).   *)
(*                                                                         *)
(* Text is a sequence of one-character strings; offsets into a text are    *)
(* 0-based as in Python, sequence indices are 1-based.  Scores are exact   *)
(* rationals <<numerator, denominator>> in lowest terms (the code uses     *)
(* floats: 1, ratio/100 + 1, 0.5 + ratio/200 and their sums).              *)
(***************************************************************************)
EXTENDS Integers, Sequences, FiniteSets, TLC

----------------------------------------------------------------------------
(* Characters and character classes *)

LowerLetters ==
    {"a", "b", "c", "d", "e", "f", "g", "h", "i", "j", "k", "l",
     "m", "n", "o", "p", "q", "r", "s", "t", "u", "v", "w", "x",
     "y", "z"}

UpperLetters ==
    {"A", "B", "C", "D", "E", "F", "G", "H", "I", "J", "K", "L",
     "M", "N", "O", "P", "Q", "R", "S", "T", "U", "V", "W", "X",
     "Y", "Z"}

Digits == {"1", "2"}

\* two characters of the CJK block \u4e00..\u9fff, named by their code points
CJKChars == {"U4E2D", "U6587"}

Whitespace == {" ", "\n"}

AsciiLetters == LowerLetters \cup UpperLetters

AsciiAlnum == AsciiLetters \cup Digits

\* \w of a Python 3 str pattern: letters (CJK included), digits, underscore
WordChars == AsciiAlnum \cup CJKChars \cup {"_"}

\* str.lower() on one character
LowerChar(c) ==
    CASE c = "A" -> "a"
      [] c = "B" -> "b"
      [] c = "C" -> "c"
      [] c = "D" -> "d"
      [] c = "E" -> "e"
      [] c = "F" -> "f"
      [] c = "G" -> "g"
      [] c = "H" -> "h"
      [] c = "I" -> "i"
      [] c = "J" -> "j"
      [] c = "K" -> "k"
      [] c = "L" -> "l"
      [] c = "M" -> "m"
      [] c = "N" -> "n"
      [] c = "O" -> "o"
      [] c = "P" -> "p"
      [] c = "Q" -> "q"
      [] c = "R" -> "r"
      [] c = "S" -> "s"
      [] c = "T" -> "t"
      [] c = "U" -> "u"
      [] c = "V" -> "v"
      [] c = "W" -> "w"
      [] c = "X" -> "x"
      [] c = "Y" -> "y"
      [] c = "Z" -> "z"
      [] OTHER -> c

\* str.lower()
ToLower(s) == [i \in 1..Len(s) |-> LowerChar(s[i])]

----------------------------------------------------------------------------
(* Python string primitives *)

\* F applied to the value of e, e being evaluated once
Once(e, F(_)) == CHOOSE r \in {F(x) : x \in {e}} : TRUE

Min(S) == CHOOSE x \in S : \A y \in S : x <= y

Max(S) == CHOOSE x \in S : \A y \in S : x >= y

\* the integers of S in ascending order
Ascending(S) ==
    Once(S, LAMBDA T :
        [k \in 1..Cardinality(T) |->
            CHOOSE b \in T : Cardinality({c \in T : c < b}) = k - 1])

\* s[lo:hi] with 0-based lo (inclusive), hi (exclusive), 0 <= lo, hi <= len
Slice(s, lo, hi) == IF hi <= lo THEN <<>> ELSE SubSeq(s, lo + 1, hi)

\* sub occurs in s at 0-based offset p
OccursAt(s, sub, p) ==
    /\ p >= 0
    /\ p + Len(sub) <= Len(s)
    /\ \A i \in 1..Len(sub) : s[p + i] = sub[i]

\* str.find(sub): the lowest offset of sub in s, -1 when there is none
Find(s, sub) ==
    LET hits == {p \in 0..(Len(s) - Len(sub)) : OccursAt(s, sub, p)}
    IN  IF hits = {} THEN -1 ELSE Min(hits)

\* the Python test `sub in s`
Contains(s, sub) == Find(s, sub) >= 0

\* `not s.strip()`: s is empty or whitespace only
IsBlank(s) == \A i \in 1..Len(s) : s[i] \in Whitespace

----------------------------------------------------------------------------
(* Exact rational scores *)

RECURSIVE Gcd(_, _)
Gcd(a, b) == IF b = 0 THEN a ELSE Gcd(b, a % b)

Frac(n, d) == LET g == Gcd(n, d) IN <<n \div g, d \div g>>

FracAdd(x, y) == Frac(x[1] * y[2] + y[1] * x[2], x[2] * y[2])

FracGE(x, y) == x[1] * y[2] >= y[1] * x[2]

FracGT(x, y) == x[1] * y[2] > y[1] * x[2]

Zero == Frac(0, 1)

One == Frac(1, 1)

----------------------------------------------------------------------------
(* difflib.SequenceMatcher(None, a, b).ratio() for len(b) < 200            *)
(* (no junk, no autojunk): 2 * M / T with M the total size of the          *)
(* matching blocks and T = len(a) + len(b)                                 *)

\* length of the common run of a from i and b from j inside a[..ahi], b[..bhi]
RECURSIVE CommonRun(_, _, _, _, _, _)
CommonRun(a, b, i, j, ahi, bhi) ==
    IF i > ahi \/ j > bhi THEN 0
    ELSE IF a[i] # b[j] THEN 0
    ELSE 1 + CommonRun(a, b, i + 1, j + 1, ahi, bhi)

\* find_longest_match(alo, ahi, bhi, bhi): <<i, j, k>>, the longest block,
\* of those the one starting earliest in a, of those the earliest in b
FindLongestMatch(a, b, alo, ahi, blo, bhi) ==
    LET runs == [p \in (alo..ahi) \X (blo..bhi) |->
                    CommonRun(a, b, p[1], p[2], ahi, bhi)]
        best == IF DOMAIN runs = {} THEN 0
                ELSE Max({runs[p] : p \in DOMAIN runs})
    IN  IF best = 0 THEN <<alo, blo, 0>>
        ELSE LET i == Min({p[1] : p \in {q \in DOMAIN runs : runs[q] = best}})
                 j == Min({p[2] : p \in {q \in DOMAIN runs :
                                            runs[q] = best /\ q[1] = i}})
             IN  <<i, j, best>>

\* sum of the sizes of get_matching_blocks() over a[alo..ahi], b[blo..bhi]
RECURSIVE MatchingSize(_, _, _, _, _, _)
MatchingSize(a, b, alo, ahi, blo, bhi) ==
    IF alo > ahi \/ blo > bhi THEN 0
    ELSE Once(FindLongestMatch(a, b, alo, ahi, blo, bhi), LAMBDA m :
            IF m[3] = 0 THEN 0
            ELSE m[3]
                 + MatchingSize(a, b, alo, m[1] - 1, blo, m[2] - 1)
                 + MatchingSize(a, b, m[1] + m[3], ahi, m[2] + m[3], bhi))

\* ratio() * 100 as a rational: 200 * M / T, and 100 when both are empty
Ratio100(a, b) ==
    IF Len(a) + Len(b) = 0 THEN Frac(100, 1)
    ELSE Frac(200 * MatchingSize(a, b, 1, Len(a), 1, Len(b)), Len(a) + Len(b))

----------------------------------------------------------------------------
(* Heading search: _search_in_headings                                     *)
(* A heading record is [text, position, level]; a match record is          *)
(* [text, position, score, type, keywords].                                *)

\* a similarity below the threshold scores nothing, substring or not
check_match_fuzzy_only(keyword, heading_text, use_fuzzy, fuzzy_threshold) ==
    IF use_fuzzy
    THEN LET ratio == Ratio100(keyword, heading_text)
         IN  IF FracGE(ratio, Frac(fuzzy_threshold, 1))
             THEN FracAdd(Frac(ratio[1], ratio[2] * 100), One)
             ELSE Zero
    ELSE IF Contains(heading_text, keyword) THEN One ELSE Zero

\* the fuzzy branch returns ratio / 100, the 1 not being added
check_match_ratio_only(keyword, heading_text, use_fuzzy, fuzzy_threshold) ==
    IF use_fuzzy
    THEN LET ratio == Ratio100(keyword, heading_text)
         IN  IF FracGE(ratio, Frac(fuzzy_threshold, 1))
             THEN Frac(ratio[1], ratio[2] * 100)
             ELSE IF Contains(heading_text, keyword) THEN One ELSE Zero
    ELSE IF Contains(heading_text, keyword) THEN One ELSE Zero

\* check_match(keyword, heading_text) of _search_in_headings
check_match(keyword, heading_text, use_fuzzy, fuzzy_threshold) ==
    IF use_fuzzy
    THEN LET ratio == Ratio100(keyword, heading_text)
         IN  IF FracGE(ratio, Frac(fuzzy_threshold, 1))
             THEN FracAdd(Frac(ratio[1], ratio[2] * 100), One)
             ELSE IF Contains(heading_text, keyword) THEN One ELSE Zero
    ELSE IF Contains(heading_text, keyword) THEN One ELSE Zero

\* check_match when use_fuzzy holds and the similarity computation raises:
\* the except branch
check_match_except(keyword, heading_text) ==
    IF Contains(heading_text, keyword) THEN One ELSE Zero

\* index of the first record of matches satisfying the lookup, 0 when none
FirstAt(matches, position, types) ==
    LET hits == {i \in 1..Len(matches) :
                    matches[i].position = position /\ matches[i].type \in types}
    IN  IF hits = {} THEN 0 ELSE Min(hits)

\* an update that lists the keyword and leaves the score as it was
AccumulateKeywordOnly(m, s, keyword) ==
    [m EXCEPT !.keywords = IF \E i \in 1..Len(@) : @[i] = keyword
                           THEN @ ELSE Append(@, keyword)]

\* existing_match['score'] += s; append keyword when it is not in the list
Accumulate(m, s, keyword) ==
    [m EXCEPT !.score = FracAdd(@, s),
              !.keywords = IF \E i \in 1..Len(@) : @[i] = keyword
                           THEN @ ELSE Append(@, keyword)]

\* the inner loop's body with neither the keyword nor the heading text
\* lowercased
HeadingVisitCaseSensitive(matches, keyword, heading, use_fuzzy, fuzzy_threshold) ==
    Once(check_match(keyword, heading.text,
                     use_fuzzy, fuzzy_threshold), LAMBDA match_score :
        LET e == FirstAt(matches, heading.position, {"heading", "content"})
        IN  IF ~FracGT(match_score, Zero) THEN matches
            ELSE IF e # 0
            THEN [matches EXCEPT ![e] = Accumulate(@, match_score, keyword)]
            ELSE Append(matches, [text |-> heading.text,
                                  position |-> heading.position,
                                  score |-> match_score,
                                  type |-> "heading",
                                  keywords |-> <<keyword>>]))

\* the body of the inner loop of _search_in_headings for one keyword and heading
HeadingVisit(matches, keyword, heading, use_fuzzy, fuzzy_threshold) ==
    Once(check_match(ToLower(keyword), ToLower(heading.text),
                     use_fuzzy, fuzzy_threshold), LAMBDA match_score :
        LET e == FirstAt(matches, heading.position, {"heading", "content"})
        IN  IF ~FracGT(match_score, Zero) THEN matches
            ELSE IF e # 0
            THEN [matches EXCEPT ![e] = Accumulate(@, match_score, keyword)]
            ELSE Append(matches, [text |-> heading.text,
                                  position |-> heading.position,
                                  score |-> match_score,
                                  type |-> "heading",
                                  keywords |-> <<keyword>>]))

\* the loops `for keyword in keywords: for idx, heading_text in ...`:
\* iteration n (from 0) visits keyword n div H and heading n mod H, H the
\* number of headings; matches after the iterations lo..hi in ascending
\* order (first lo..mid, then mid+1..hi)
RECURSIVE HeadingLoop(_, _, _, _, _, _, _)
HeadingLoop(matches, keywords, headings, lo, hi, use_fuzzy, fuzzy_threshold) ==
    IF lo > hi THEN matches
    ELSE IF lo = hi
    THEN HeadingVisit(matches, keywords[(lo \div Len(headings)) + 1],
                      headings[(lo % Len(headings)) + 1],
                      use_fuzzy, fuzzy_threshold)
    ELSE Once(HeadingLoop(matches, keywords, headings, lo, (lo + hi) \div 2,
                          use_fuzzy, fuzzy_threshold), LAMBDA mid :
            HeadingLoop(mid, keywords, headings, ((lo + hi) \div 2) + 1, hi,
                        use_fuzzy, fuzzy_threshold))

_search_in_headings(keywords, headings, use_fuzzy, fuzzy_threshold) ==
    HeadingLoop(<<>>, keywords, headings, 0, Len(keywords) * Len(headings) - 1,
                use_fuzzy, fuzzy_threshold)

----------------------------------------------------------------------------
(* Paragraphs: re.split(r'\n\s*\n', text) and the offsets given to them    *)

\* the maximal whitespace run of s that starts at index i ends at RunEnd
RunEnd(s, i) ==
    Min({j \in i..Len(s) : j = Len(s) \/ s[j + 1] \notin Whitespace})

\* the matches of \n\s*\n, as <<first, last>> index pairs: in each maximal
\* whitespace run holding two or more line breaks, from its first line
\* break to its last one
Separators(s) ==
    LET starts == {i \in 1..Len(s) :
                      s[i] \in Whitespace /\ (i = 1 \/ s[i - 1] \notin Whitespace)}
        nls(i) == {j \in i..RunEnd(s, i) : s[j] = "\n"}
    IN  {<<Min(nls(i)), Max(nls(i))>> : i \in {k \in starts : Cardinality(nls(k)) >= 2}}

\* the pieces re.split returns, in order, each as [start, text] with start
\* the true 0-based offset of the piece in s
SplitParagraphs(s) ==
    Once(Separators(s), LAMBDA seps :
        LET endOf(b) == LET after == {p[1] : p \in {q \in seps : q[1] >= b}}
                        IN  IF after = {} THEN Len(s) ELSE Min(after) - 1
        IN  Once(Ascending({1} \cup {p[2] + 1 : p \in seps}), LAMBDA begins :
                [k \in 1..Len(begins) |->
                    [start |-> begins[k] - 1,
                     text |-> Slice(s, begins[k] - 1, endOf(begins[k]))]]))

\* para_pos of the non-blank paragraph with index para_idx (0-based) in the
\* list re.split returned
ParaPos(s, para_idx, paragraph) ==
    IF para_idx = 0 THEN 0 ELSE Find(s, paragraph)

\* processed_paragraphs: the non-blank pieces in order as
\* [text, position, start], position as the code computes it and start the
\* true offset of the piece
ProcessedParagraphs(s) ==
    Once(SplitParagraphs(s), LAMBDA pieces :
        Once(Ascending({k \in 1..Len(pieces) : ~IsBlank(pieces[k].text)}),
             LAMBDA keep :
                [k \in 1..Len(keep) |->
                    [text |-> pieces[keep[k]].text,
                     position |-> ParaPos(s, keep[k] - 1, pieces[keep[k]].text),
                     start |-> pieces[keep[k]].start]]))

----------------------------------------------------------------------------
(* Nearest heading, snippet, content search                                *)

\* the label written for a content match that has no heading: the five
\* characters of the literal at full-v1.0 line 4670, by their code points
UntitledLabel == <<"U65E0", "U6807", "U9898", "U533A", "U57DF">>

NoHeading == [text |-> <<>>, position |-> -1, level |-> 0]

\* the first loop of _find_nearest_heading: among the headings at or before
\* position, the first one in list order at the least distance
NearestPreceding(headings, position) ==
    LET before == {i \in 1..Len(headings) : headings[i].position <= position}
        dist(i) == position - headings[i].position
        least == {i \in before : \A j \in before : dist(i) <= dist(j)}
    IN  IF before = {} THEN 0 ELSE Min(least)

\* min(self.heading_positions, key=lambda h: abs(h['position'] - position)):
\* the first heading in list order at the least absolute distance
NearestAny(headings, position) ==
    LET abs(x) == IF x < 0 THEN -x ELSE x
        dist(i) == abs(headings[i].position - position)
        least == {i \in 1..Len(headings) :
                     \A j \in 1..Len(headings) : dist(i) <= dist(j)}
    IN  Min(least)

\* _find_nearest_heading of full-v1.0: NoHeading stands for None
_find_nearest_heading(headings, position) ==
    LET n == NearestPreceding(headings, position)
    IN  IF n # 0 THEN headings[n]
        ELSE IF Len(headings) > 0 THEN headings[NearestAny(headings, position)]
        ELSE NoHeading

\* _find_nearest_heading of tag-v3.2.1: only the first loop
_find_nearest_heading_v321(headings, position) ==
    LET n == NearestPreceding(headings, position)
    IN  IF n # 0 THEN headings[n] ELSE NoHeading

\* heading_text = nearest_heading['text'] if nearest_heading else label
HeadingLabel(nearest_heading) ==
    IF nearest_heading = NoHeading THEN UntitledLabel ELSE nearest_heading.text

SnippetLimit == 100

SnippetBefore == 40

SnippetAfter == 60

Ellipsis == <<".", ".", ".">>

\* a snippet cut around the keyword whatever the paragraph's length
CutAlways(paragraph, keyword) ==
    LET keyword_pos == Find(ToLower(paragraph), keyword)
        start_pos == Max({0, keyword_pos - SnippetBefore})
        end_pos == Min({Len(paragraph), keyword_pos + Len(keyword) + SnippetAfter})
        body == Slice(paragraph, start_pos, end_pos)
    IN  IF keyword_pos >= 0
        THEN (IF start_pos > 0 THEN Ellipsis ELSE <<>>) \o body \o Ellipsis
        ELSE Slice(paragraph, 0, Min({Len(paragraph), SnippetLimit})) \o Ellipsis

\* _create_snippet(paragraph, keyword)
_create_snippet(paragraph, keyword) ==
    IF Len(paragraph) <= SnippetLimit THEN paragraph
    ELSE LET keyword_pos == Find(ToLower(paragraph), keyword)
             start_pos == Max({0, keyword_pos - SnippetBefore})
             end_pos == Min({Len(paragraph),
                             keyword_pos + Len(keyword) + SnippetAfter})
             body == Slice(paragraph, start_pos, end_pos)
             left == IF start_pos > 0 THEN Ellipsis \o body ELSE body
         IN  IF keyword_pos >= 0
             THEN IF end_pos < Len(paragraph) THEN left \o Ellipsis ELSE left
             ELSE Slice(paragraph, 0, SnippetLimit) \o Ellipsis

FuzzyParagraphLimit == 500

\* para_score with the similarity computed whatever the paragraph's length
ParaScoreAnyLength(keyword_lower, para, use_fuzzy, fuzzy_threshold) ==
    IF Contains(ToLower(para.text), keyword_lower) THEN One
    ELSE IF use_fuzzy
    THEN LET ratio == Ratio100(keyword_lower, ToLower(para.text))
         IN  IF FracGE(ratio, Frac(fuzzy_threshold, 1))
             THEN FracAdd(Frac(1, 2), Frac(ratio[1], ratio[2] * 200))
             ELSE Zero
    ELSE Zero

\* para_score of _search_in_content for one keyword and paragraph
ParaScore(keyword_lower, para, use_fuzzy, fuzzy_threshold) ==
    IF Contains(ToLower(para.text), keyword_lower) THEN One
    ELSE IF use_fuzzy /\ Len(para.text) < FuzzyParagraphLimit
    THEN LET ratio == Ratio100(keyword_lower, ToLower(para.text))
         IN  IF FracGE(ratio, Frac(fuzzy_threshold, 1))
             THEN FracAdd(Frac(1, 2), Frac(ratio[1], ratio[2] * 200))
             ELSE Zero
    ELSE Zero

\* para_score of one keyword in knowledge-voice-navigator2.py and tag-v3.0
\* (search_knowledge_base): with fuzzy matching enabled the similarity alone
\* decides for a paragraph shorter than 500 characters, the substring test
\* for a longer one
ParaScore_v2(keyword_lower, para, use_fuzzy, fuzzy_threshold) ==
    IF use_fuzzy
    THEN IF Len(para.text) < FuzzyParagraphLimit
         THEN LET ratio == Ratio100(keyword_lower, ToLower(para.text))
              IN  IF FracGE(ratio, Frac(fuzzy_threshold, 1))
                  THEN FracAdd(Frac(1, 2), Frac(ratio[1], ratio[2] * 200))
                  ELSE Zero
         ELSE IF Contains(ToLower(para.text), keyword_lower) THEN One ELSE Zero
    ELSE IF Contains(ToLower(para.text), keyword_lower) THEN One ELSE Zero

\* the body of the inner loop of _search_in_content for one keyword and paragraph
ContentVisit(matches, keyword, para, headings, use_fuzzy, fuzzy_threshold) ==
    Once(ParaScore(ToLower(keyword), para, use_fuzzy, fuzzy_threshold),
         LAMBDA para_score :
        LET keyword_lower == ToLower(keyword)
            heading_text == HeadingLabel(_find_nearest_heading(headings, para.position))
            snippet == _create_snippet(para.text, keyword_lower)
            e == FirstAt(matches, para.position, {"content"})
        IN  IF ~FracGT(para_score, Zero) THEN matches
            ELSE IF e # 0
            THEN [matches EXCEPT ![e] = Accumulate(@, para_score, keyword)]
            ELSE Append(matches, [text |-> heading_text \o <<" ", "-", " ">> \o snippet,
                                  position |-> para.position,
                                  score |-> para_score,
                                  type |-> "content",
                                  keywords |-> <<keyword>>]))

\* the loops `for keyword in keywords: for para_idx, (para_pos, paragraph)
\* in ...`: iteration n (from 0) visits keyword n div P and paragraph
\* n mod P, P the number of processed paragraphs
\* matches after the iterations lo..hi in ascending order
RECURSIVE ContentLoop(_, _, _, _, _, _, _, _)
ContentLoop(matches, keywords, paras, headings, lo, hi, use_fuzzy, fuzzy_threshold) ==
    IF lo > hi THEN matches
    ELSE IF lo = hi
    THEN ContentVisit(matches, keywords[(lo \div Len(paras)) + 1],
                      paras[(lo % Len(paras)) + 1], headings,
                      use_fuzzy, fuzzy_threshold)
    ELSE Once(ContentLoop(matches, keywords, paras, headings,
                          lo, (lo + hi) \div 2, use_fuzzy, fuzzy_threshold),
              LAMBDA mid :
                ContentLoop(mid, keywords, paras, headings,
                            ((lo + hi) \div 2) + 1, hi, use_fuzzy, fuzzy_threshold))

_search_in_content(keywords, text, headings, use_fuzzy, fuzzy_threshold) ==
    Once(ProcessedParagraphs(text), LAMBDA paras :
        ContentLoop(<<>>, keywords, paras, headings,
                    0, Len(keywords) * Len(paras) - 1, use_fuzzy, fuzzy_threshold))

----------------------------------------------------------------------------
(* Merge, rank, truncate: search_knowledge_base after the cache lookup     *)

HeadingsEnough == 10

max_matches == 30

\* list.sort(key=score, reverse=True): stable, descending
\* a search that leaves the records in the order they were found
SortByScoreSkipped(matches) == matches

\* a sort by score that puts records of the same score in reverse order
SortByScoreTiesReversed(matches) ==
    Once(matches, LAMBDA ms :
        LET before(i) == {j \in 1..Len(ms) :
                             \/ FracGT(ms[j].score, ms[i].score)
                             \/ j > i /\ FracGE(ms[j].score, ms[i].score)}
        IN  [k \in 1..Len(ms) |->
                ms[CHOOSE i \in 1..Len(ms) : Cardinality(before(i)) = k - 1]])

\* record i goes after the records of a greater score and after the earlier
\* records of the same score
SortByScore(matches) ==
    Once(matches, LAMBDA ms :
        LET before(i) == {j \in 1..Len(ms) :
                             \/ FracGT(ms[j].score, ms[i].score)
                             \/ j < i /\ FracGE(ms[j].score, ms[i].score)}
        IN  [k \in 1..Len(ms) |->
                ms[CHOOSE i \in 1..Len(ms) : Cardinality(before(i)) = k - 1]])

\* a cut that keeps one record fewer than max_matches
TruncateOneShort(matches) ==
    IF Len(matches) >= max_matches
    THEN SubSeq(matches, 1, max_matches - 1) ELSE matches

\* `matches = matches[:max_matches]` when there are more than max_matches
Truncate(matches) ==
    IF Len(matches) > max_matches THEN SubSeq(matches, 1, max_matches) ELSE matches

\* a test that still searches the content at 10 heading matches
ContentSearchRunsAtTen(heading_matches) == Len(heading_matches) <= HeadingsEnough

\* `if len(matches) < 10` at line 4525
ContentSearchRuns(heading_matches) == Len(heading_matches) < HeadingsEnough

\* the records found before sorting: heading matches, then content matches
\* when there are fewer than 10 heading matches
FoundAfter(heading_matches, keywords, text, headings, use_fuzzy, fuzzy_threshold) ==
    IF ContentSearchRuns(heading_matches)
    THEN heading_matches \o _search_in_content(keywords, text, headings,
                                               use_fuzzy, fuzzy_threshold)
    ELSE heading_matches

FoundMatches(keywords, text, headings, use_fuzzy, fuzzy_threshold) ==
    Once(_search_in_headings(keywords, headings, use_fuzzy, fuzzy_threshold),
         LAMBDA heading_matches :
            FoundAfter(heading_matches, keywords, text, headings,
                       use_fuzzy, fuzzy_threshold))

\* the list an uncached search computes (lines 4520-4535)
ComputeMatches(keywords, text, headings, use_fuzzy, fuzzy_threshold) ==
    Truncate(SortByScore(FoundMatches(keywords, text, headings,
                                      use_fuzzy, fuzzy_threshold)))

----------------------------------------------------------------------------
(* parse_knowledge_base, Markdown branch: the matches of                   *)
(* ^(#{1,6}\s+.+)$ (MULTILINE) in order, each giving a heading record      *)

MaxHashes == 6

\* index of the last character of the line that holds index i
LineEnd(s, i) == Min({j \in i..Len(s) : j = Len(s) \/ s[j + 1] = "\n"})

\* number of '#' characters in a row from index i
HashRun(s, i) ==
    Cardinality({j \in i..Len(s) : \A k \in i..j : s[k] = "#"})

\* s.strip() on the right: the index of the last non-whitespace character
\* of s[lo..hi]
LastNonBlank(s, lo, hi) == Max({j \in lo..hi : s[j] \notin Whitespace})

\* the match of the heading pattern that starts at line start i, as
\* <<last index, first index of the heading text>>; <<0, 0>> when the
\* pattern does not match at i.  After the hashes \s+ takes the whole
\* whitespace run when a character follows it, and .+ the rest of that
\* line; when the run reaches the end of the text \s+ gives back up to the
\* last position followed by a blank that is not a line break.
HeadingMatchAt(s, i) ==
    LET n == HashRun(s, i)
        w == i + n
    IN  IF n < 1 \/ n > MaxHashes \/ w > Len(s) THEN <<0, 0>>
        ELSE IF s[w] \notin Whitespace THEN <<0, 0>>
        ELSE LET r == RunEnd(s, w)
                 back == {e \in w..(r - 1) : s[e + 1] # "\n"}
             IN  IF r < Len(s) THEN <<LineEnd(s, r + 1), r + 1>>
                 ELSE IF back = {} THEN <<0, 0>>
                 ELSE <<LineEnd(s, Max(back) + 1), 0>>

\* the heading record of the match s[i..last]: text is the match stripped
\* and without its leading '#'s and whitespace (the hashes alone when
\* nothing else is left), position the 0-based offset of the match
HeadingRecord(s, i, m) ==
    LET n == HashRun(s, i)
    IN  [text |-> IF m[2] = 0 THEN SubSeq(s, i, i + n - 1)
                  ELSE SubSeq(s, m[2], LastNonBlank(s, m[2], m[1])),
         position |-> i - 1,
         level |-> n]

\* the index after the first line break at or after index i
NextLineStart(s, i) ==
    Min({j \in i..Len(s) : s[j] = "\n"} \cup {Len(s) + 1}) + 1

\* finditer from line start i on: a match is tried at every line start that
\* lies after the previous match
RECURSIVE MarkdownHeadings(_, _)
MarkdownHeadings(s, i) ==
    IF i > Len(s) THEN <<>>
    ELSE LET m == HeadingMatchAt(s, i)
         IN  IF m[1] = 0
             THEN MarkdownHeadings(s, NextLineStart(s, i))
             ELSE <<HeadingRecord(s, i, m)>> \o MarkdownHeadings(s, m[1] + 2)

----------------------------------------------------------------------------
(* parse_knowledge_base, text-file branch: underlined titles, numbered     *)
(* titles and, when fewer than three headings were found, upper-case lines *)

UnderlineChars == {"=", "-"}

MinUnderline == 3

MinCapsRun == 5

FewHeadings == 3

\* s.strip(): s without its leading and trailing whitespace
Strip(s) ==
    LET keep == {j \in 1..Len(s) : s[j] \notin Whitespace}
    IN  IF keep = {} THEN <<>> ELSE SubSeq(s, Min(keep), Max(keep))

\* ^(.+)\n([=\-]{3,})$ at line start i, as <<last index of the match, last
\* index of the title line>>: a line that is not empty followed by a line
\* made of three or more of '=' and '-'
UnderlineMatchAt(s, i) ==
    IF s[i] = "\n" THEN <<0, 0>>
    ELSE LET e == LineEnd(s, i)
             u == e + 2
         IN  IF u > Len(s) THEN <<0, 0>>
             ELSE IF s[u] \notin UnderlineChars THEN <<0, 0>>
             ELSE LET f == LineEnd(s, u)
                  IN  IF /\ \A j \in u..f : s[j] \in UnderlineChars
                         /\ f - u + 1 >= MinUnderline
                      THEN <<f, e>>
                      ELSE <<0, 0>>

\* number of digits in a row from index i
DigitRun(s, i) ==
    Cardinality({j \in i..Len(s) : \A k \in i..j : s[k] \in Digits})

\* (\d+\.)+ from index i: the index after the last group of digits and dot
RECURSIVE GroupsEnd(_, _)
GroupsEnd(s, i) ==
    LET d == DigitRun(s, i)
    IN  IF d >= 1 /\ i + d <= Len(s) /\ s[i + d] = "."
        THEN GroupsEnd(s, i + d + 1)
        ELSE i

\* ^(\d+\.)+\s+(.+)$ at line start i, as <<last index of the match, 0>>:
\* after the groups \s+ takes the whole whitespace run when a character
\* follows it, and .+ the rest of that line; when the run reaches the end of
\* the text \s+ gives back up to the last position followed by a blank that
\* is not a line break
NumberMatchAt(s, i) ==
    LET g == GroupsEnd(s, i)
    IN  IF g = i \/ g > Len(s) THEN <<0, 0>>
        ELSE IF s[g] \notin Whitespace THEN <<0, 0>>
        ELSE LET r == RunEnd(s, g)
                 back == {e \in g..(r - 1) : s[e + 1] # "\n"}
             IN  IF r < Len(s) THEN <<LineEnd(s, r + 1), 0>>
                 ELSE IF back = {} THEN <<0, 0>>
                 ELSE <<LineEnd(s, Max(back) + 1), 0>>

\* ^([A-Z\s]{5,})$ at line start i, as <<last index of the match, 0>>: the
\* longest run of upper-case letters and whitespace (line breaks included),
\* five or more long, that stops at the end of the text or before a line
\* break
CapsMatchAt(s, i) ==
    LET run == {j \in i..Len(s) :
                   \A k \in i..j : s[k] \in UpperLetters \cup Whitespace}
        ends == {k \in run : /\ k - i + 1 >= MinCapsRun
                             /\ (k = Len(s) \/ s[k + 1] = "\n")}
    IN  IF ends = {} THEN <<0, 0>> ELSE <<Max(ends), 0>>

PatternMatchAt(kind, s, i) ==
    CASE kind = "underline" -> UnderlineMatchAt(s, i)
      [] kind = "number" -> NumberMatchAt(s, i)
      [] kind = "caps" -> CapsMatchAt(s, i)

\* len(re.findall(r'\d+\.', text)) for the text s[i..last]: the dots that
\* follow a digit
NumberLevel(s, i, last) ==
    Cardinality({j \in (i + 1)..last : s[j] = "." /\ s[j - 1] \in Digits})

\* the heading record of the match m of a pattern at line start i
PatternRecord(kind, s, i, m) ==
    CASE kind = "underline" ->
             [text |-> Strip(SubSeq(s, i, m[2])),
              position |-> i - 1,
              level |-> IF s[m[2] + 2] = "=" THEN 1 ELSE 2]
      [] kind = "number" ->
             [text |-> SubSeq(s, i, m[1]),
              position |-> i - 1,
              level |-> NumberLevel(s, i, m[1])]
      [] kind = "caps" ->
             [text |-> Strip(SubSeq(s, i, m[1])),
              position |-> i - 1,
              level |-> 1]

\* finditer of one pattern from line start i on: after a match the search
\* goes on at the first line start at or after the end of the match
RECURSIVE PatternHeadings(_, _, _)
PatternHeadings(kind, s, i) ==
    IF i > Len(s) THEN <<>>
    ELSE LET m == PatternMatchAt(kind, s, i)
         IN  IF m[1] = 0
             THEN PatternHeadings(kind, s, NextLineStart(s, i))
             ELSE <<PatternRecord(kind, s, i, m)>>
                  \o PatternHeadings(kind, s,
                         IF s[m[1]] = "\n" THEN m[1] + 1
                         ELSE NextLineStart(s, m[1] + 1))

\* the three passes of the text branch, each appending to the same list
TextHeadings(s) ==
    LET found == PatternHeadings("underline", s, 1)
                 \o PatternHeadings("number", s, 1)
    IN  IF Len(found) < FewHeadings
        THEN found \o PatternHeadings("caps", s, 1)
        ELSE found

\* the file names that end in .md, whatever the case
MarkdownPaths == {"kb.md", "KB.MD"}

is_markdown(path) == path \in MarkdownPaths

\* list.sort(key=position): record i goes after the records of a smaller
\* position and after the earlier records of the same position
SortByPosition(headings) ==
    Once(headings, LAMBDA hs :
        LET before(i) == {j \in 1..Len(hs) :
                             \/ hs[j].position < hs[i].position
                             \/ j < i /\ hs[j].position = hs[i].position}
        IN  [k \in 1..Len(hs) |->
                hs[CHOOSE i \in 1..Len(hs) : Cardinality(before(i)) = k - 1]])

\* parse_knowledge_base: the headings of the Markdown branch for a .md path,
\* of the text branch otherwise, sorted by position
parse_knowledge_base(s, path) ==
    SortByPosition(IF is_markdown(path) THEN MarkdownHeadings(s, 1)
                   ELSE TextHeadings(s))

----------------------------------------------------------------------------
(* Keyword extraction: extract_keywords                                    *)

Range(q) == {q[i] : i \in 1..Len(q)}

\* the index of the last character of the run of characters of class C
\* that starts at index i
ClassRunEnd(s, i, C) ==
    Max({j \in i..Len(s) : \A k \in i..j : s[k] \in C})

\* \b holds between index i and index i + 1 (i = 0: at the start)
Boundary(s, i) ==
    LET w(k) == k >= 1 /\ k <= Len(s) /\ s[k] \in WordChars
    IN  w(i) # w(i + 1)

MinWordLen == 3

\* re.findall(r'\b[a-zA-Z]{3,}\b', text) from index i on: the runs of
\* ASCII letters of length >= 3 with a word boundary on both sides
RECURSIVE RegexWords(_, _)
RegexWords(s, i) ==
    IF i > Len(s) THEN <<>>
    ELSE IF s[i] \in AsciiLetters /\ Boundary(s, i - 1)
    THEN LET e == ClassRunEnd(s, i, AsciiLetters)
         IN  IF e - i + 1 >= MinWordLen /\ Boundary(s, e)
             THEN <<SubSeq(s, i, e)>> \o RegexWords(s, e + 1)
             ELSE RegexWords(s, i + 1)
    ELSE RegexWords(s, i + 1)

TermSeparators == {".", "_", "-"}

\* the ends the pattern [a-zA-Z0-9]+(?:[._-][a-zA-Z0-9]+)* can stop at
\* when it starts at index i: the end of each alphanumeric run it crosses
RECURSIVE TermEnds(_, _)
TermEnds(s, i) ==
    LET e == ClassRunEnd(s, i, AsciiAlnum)
    IN  IF e + 2 <= Len(s) /\ s[e + 1] \in TermSeparators /\ s[e + 2] \in AsciiAlnum
        THEN {e} \cup TermEnds(s, e + 2)
        ELSE {e}

\* re.findall(r'\b[a-zA-Z0-9]+(?:[._-][a-zA-Z0-9]+)*\b', text) from index
\* i on: the longest stop that is a word boundary
RECURSIVE RegexTerms(_, _)
RegexTerms(s, i) ==
    IF i > Len(s) THEN <<>>
    ELSE IF s[i] \in AsciiAlnum /\ Boundary(s, i - 1)
    THEN LET ends == {e \in TermEnds(s, i) : Boundary(s, e)}
         IN  IF ends # {}
             THEN <<SubSeq(s, i, Max(ends))>> \o RegexTerms(s, Max(ends) + 1)
             ELSE RegexTerms(s, i + 1)
    ELSE RegexTerms(s, i + 1)

MinTermLen == 3

\* tech_terms: the terms longer than 3 holding '.', '_' or '-'
TechTerms(s) ==
    SelectSeq(RegexTerms(s, 1),
              LAMBDA t : Len(t) > MinTermLen /\ Range(t) \cap TermSeparators # {})

\* jieba.cut(text) on the modelled alphabet: each run of CJK characters and
\* each run of ASCII letters and digits is a word, every other character a
\* word of its own (the CJK runs of the modelled queries are dictionary words)
RECURSIVE JiebaCut(_, _)
JiebaCut(s, i) ==
    IF i > Len(s) THEN <<>>
    ELSE LET C == IF s[i] \in CJKChars THEN CJKChars
                  ELSE IF s[i] \in AsciiAlnum THEN AsciiAlnum ELSE {s[i]}
             e == IF C = {s[i]} THEN i ELSE ClassRunEnd(s, i, C)
         IN  <<SubSeq(s, i, e)>> \o JiebaCut(s, e + 1)

\* nltk's word_tokenize(text) on the modelled alphabet: the runs of
\* non-blank characters, a final '.' of the text being a token of its own
RECURSIVE WordTokenize(_, _)
WordTokenize(s, i) ==
    IF i > Len(s) THEN <<>>
    ELSE IF s[i] \in Whitespace THEN WordTokenize(s, i + 1)
    ELSE LET e == ClassRunEnd(s, i, {s[k] : k \in 1..Len(s)} \ Whitespace)
         IN  IF e = Len(s) /\ s[e] = "." /\ e > i
             THEN <<SubSeq(s, i, e - 1), <<".">>>>
             ELSE <<SubSeq(s, i, e)>> \o WordTokenize(s, e + 1)

\* stopwords.words('english'): its words of more than 2 characters over
\* the modelled letters
StopWords == {<<"a", "n", "d">>, <<"c", "a", "n">>, <<"b", "e", "e", "n">>,
              <<"n", "e", "e", "d", "n">>}

\* str.isalnum() and str.isdigit()
IsAlnum(w) == Len(w) > 0 /\ Range(w) \subseteq (AsciiAlnum \cup CJKChars)

IsDigit(w) == Len(w) > 0 /\ Range(w) \subseteq Digits

MinJiebaLen == 2

MinNltkLen == 2

FallbackMaxLen == 50

MapLower(q) == [i \in 1..Len(q) |-> ToLower(q[i])]

\* the keywords list of extract_keywords before the fallback: the words of
\* the token classes.
\* jieba, nltk \in {"absent", "ok", "raises"}: the module is not installed
\* (JIEBA_AVAILABLE / NLTK_AVAILABLE false), works, or raises when called
TokenKeywords(text, jieba, nltk) ==
    LET chinese_text == \E i \in 1..Len(text) : text[i] \in CJKChars
        cjk == IF chinese_text /\ jieba = "ok"
               THEN SelectSeq(JiebaCut(text, 1),
                              LAMBDA w : Len(w) >= MinJiebaLen /\ ~IsDigit(w))
               ELSE <<>>
        eng == IF nltk = "ok"
               THEN MapLower(SelectSeq(WordTokenize(text, 1),
                        LAMBDA w : /\ IsAlnum(w)
                                   /\ Len(w) > MinNltkLen
                                   /\ ToLower(w) \notin StopWords))
               ELSE MapLower(RegexWords(text, 1))
    IN  cjk \o eng \o TechTerms(text)

\* a fallback that takes the original text whatever its length
KeywordListAnyLength(text, jieba, nltk) ==
    LET found == TokenKeywords(text, jieba, nltk)
    IN  IF found = <<>> THEN <<text>> ELSE found

\* the keywords list of extract_keywords before list(set(keywords))
KeywordList(text, jieba, nltk) ==
    LET found == TokenKeywords(text, jieba, nltk)
    IN  IF found = <<>> /\ Len(text) < FallbackMaxLen
        THEN <<text>> ELSE found

\* extract_keywords raises exactly when jieba.cut does (the nltk calls are
\* inside try/except, jieba.cut is not)
ExtractRaises(text, jieba) ==
    /\ jieba = "raises"
    /\ \E i \in 1..Len(text) : text[i] \in CJKChars

\* the set that list(set(keywords)) lists, in an order the caller cannot choose
extract_keywords(text, jieba, nltk) == Range(KeywordList(text, jieba, nltk))

\* the lists list(set(keywords)) may return: every order of the set
Orderings(S) ==
    {q \in [1..Cardinality(S) -> S] : \A i, j \in DOMAIN q : i # j => q[i] # q[j]}

----------------------------------------------------------------------------
(* search_knowledge_base (full-v1.0 lines 4478-4562) as a function of the  *)
(* fields it reads                                                         *)

CacheLimit == 20

\* cache_key = f"{query}_{use_fuzzy}_{fuzzy_threshold}": the two last
\* fields hold no '_', so distinct triples give distinct keys
CacheKey(query, use_fuzzy, fuzzy_threshold) == <<query, use_fuzzy, fuzzy_threshold>>

\* index of the entry of the cache with this key, 0 when there is none
CacheIndex(cache, key) ==
    LET hits == {i \in 1..Len(cache) : cache[i].key = key}
    IN  IF hits = {} THEN 0 ELSE Min(hits)

\* as CacheStore, dropping the newest entry instead of the oldest
CacheStoreNewestOut(cache, key, matches) ==
    Append(IF Len(cache) > CacheLimit THEN SubSeq(cache, 1, Len(cache) - 1) ELSE cache,
           [key |-> key, value |-> matches])

\* lines 4551-4558: drop the oldest entry when more than 20 are held, then
\* store the new one (search_cache is a dict, which keeps insertion order)
CacheStore(cache, key, matches) ==
    Append(IF Len(cache) > CacheLimit THEN Tail(cache) ELSE cache,
           [key |-> key, value |-> matches])

NoRun == [outcome |-> "none", keywords |-> <<>>, found |-> <<>>,
          heading_count |-> 0, content_ran |-> FALSE]

\* What one call does: the new current_matches and search_cache, and a
\* trace of the call: outcome ("skipped": no query or no document,
\* "nokeywords", "cached", "computed"), the keyword list in the order
\* list(set(...)) returned it, the records found before the sort, the
\* number of heading matches and whether content search ran.
\* keywords is the list extract_keywords returned.
SearchCall(query, keywords, text, headings, use_fuzzy, fuzzy_threshold, cache, current) ==
    LET key == CacheKey(query, use_fuzzy, fuzzy_threshold)
        hit == CacheIndex(cache, key)
    IN  IF query = <<>> \/ text = <<>>
        THEN [current |-> current, cache |-> cache,
              run |-> [NoRun EXCEPT !.outcome = "skipped"]]
        ELSE IF keywords = <<>>
        THEN [current |-> current, cache |-> cache,
              run |-> [NoRun EXCEPT !.outcome = "nokeywords"]]
        ELSE IF hit # 0
        THEN [current |-> cache[hit].value, cache |-> cache,
              run |-> [NoRun EXCEPT !.outcome = "cached", !.keywords = keywords]]
        ELSE Once(_search_in_headings(keywords, headings,
                                      use_fuzzy, fuzzy_threshold),
                  LAMBDA heading_matches :
             Once(FoundAfter(heading_matches, keywords, text, headings,
                             use_fuzzy, fuzzy_threshold), LAMBDA found :
             Once(Truncate(SortByScore(found)), LAMBDA matches :
                [current |-> matches,
                 cache |-> CacheStore(cache, key, matches),
                 run |-> [outcome |-> "computed", keywords |-> keywords,
                          found |-> found,
                          heading_count |-> Len(heading_matches),
                          content_ran |-> ContentSearchRuns(heading_matches)]])))

----------------------------------------------------------------------------
(* The application: state of KnowledgeNavigator and its handlers           *)

VARIABLES
    knowledge_base,     \* the loaded document text
    knowledge_path,     \* "" for None, else the path of the loaded file
    heading_positions,  \* the heading records of parse_knowledge_base
    current_matches,    \* the match list shown to the user
    fuzzy_match_var,    \* the "fuzzy matching" check box
    fuzzy_ratio,        \* the fuzzy threshold (sensitivity)
    search_cache,       \* sequence of [key, value], oldest first
    last_search_query,
    last_run,           \* trace of the search the last handler made, NoRun
                        \* when it made none
    steps,              \* number of handlers run so far
    args,               \* the arguments of a helper called on its own
    result,             \* what the helper returned, Idle before the call
    listening,          \* the "listening" flag of the listen button
    threads,            \* the recognition threads: where each one is
    mic_holder,         \* the thread inside "with self.mic", 0 when none
    after_queue,        \* callbacks given to root.after(0, ...), in order
    text_history,       \* the last recognized texts
    original_content,   \* tag-v3.2.1: the attribute original_content
    edit_mode,          \* tag-v3.2.1: the edit toolbar is shown
    match_list,         \* the result items of the match_list tree
    selected            \* what the last on_match_select resolved

\* the variables of speech recognition, of the editor and of the result view
speech == <<listening, threads, mic_holder, after_queue, text_history>>

editor == <<original_content, edit_mode>>

view == <<match_list, selected>>

vars == <<knowledge_base, knowledge_path, heading_positions, current_matches,
          fuzzy_match_var, fuzzy_ratio, search_cache, last_search_query,
          last_run, steps, args, result, speech, editor, view>>

\* the optional modules of this installation: neither jieba nor nltk
Jieba == "absent"

Nltk == "absent"

MaxSteps == 4

\* recognition threads alive at the same time
MaxThreads == 2

DefaultFuzzyRatio == 70

MdPath == "kb.md"

Txt(a, b, c) == <<a, b, c>>

Blank == <<"\n", "\n">>

\* "# abc\n\nbcd abc\n\n# bcd\n\nabc"
DocA == <<"#", " ">> \o Txt("a", "b", "c") \o Blank
        \o Txt("b", "c", "d") \o <<" ">> \o Txt("a", "b", "c") \o Blank
        \o <<"#", " ">> \o Txt("b", "c", "d") \o Blank \o Txt("a", "b", "c")

\* "# bcd\n\nabc\n\nbcd\n\nabc": the paragraph "abc" occurs twice
DocB == <<"#", " ">> \o Txt("b", "c", "d") \o Blank \o Txt("a", "b", "c")
        \o Blank \o Txt("b", "c", "d") \o Blank \o Txt("a", "b", "c")

\* the text of the editor after an edit: "# abc\n\nabd\n"
DocEdited == <<"#", " ">> \o Txt("a", "b", "c") \o Blank \o Txt("a", "b", "d")
             \o <<"\n">>

Docs == {DocA, DocB}

Edits == {DocEdited}

\* a query no keyword is extracted from: 50 underscores
NoKeywordQuery == [i \in 1..FallbackMaxLen |-> "_"]

\* "abc", "bcd abc", "abd", and the query without keywords
Queries == {Txt("a", "b", "c"),
            Txt("b", "c", "d") \o <<" ">> \o Txt("a", "b", "c"),
            Txt("a", "b", "d"),
            NoKeywordQuery}

\* positions of the sensitivity slider (from 50 to 100)
Ratios == {50, DefaultFuzzyRatio}

\* no helper is called on its own
Idle == [op |-> "none"]

\* no recognition thread was started
NoThreads == [t \in 1..MaxThreads |-> [pc |-> "idle", errors |-> 0]]

\* the attribute original_content does not exist
NoOriginal == [has |-> FALSE, text |-> <<>>]

\* nothing is selected in the match list
NoSelection == [item |-> 0, match |-> -1]

\* the fields of speech recognition and of the editor after __init__
ConstructedQuiet ==
    /\ listening = FALSE
    /\ threads = NoThreads
    /\ mic_holder = 0
    /\ after_queue = <<>>
    /\ text_history = <<>>
    /\ original_content = NoOriginal
    /\ edit_mode = FALSE

\* these and the empty result view
ConstructedRest ==
    /\ ConstructedQuiet
    /\ match_list = <<>>
    /\ selected = NoSelection

\* the fields of KnowledgeNavigator after __init__
Constructed ==
    /\ knowledge_base = <<>>
    /\ knowledge_path = ""
    /\ heading_positions = <<>>
    /\ current_matches = <<>>
    /\ fuzzy_match_var = TRUE
    /\ fuzzy_ratio = DefaultFuzzyRatio
    /\ search_cache = <<>>
    /\ last_search_query = <<>>
    /\ last_run = NoRun
    /\ steps = 0
    /\ ConstructedRest

fields == <<knowledge_base, knowledge_path, heading_positions, current_matches,
            fuzzy_match_var, fuzzy_ratio, search_cache, last_search_query,
            last_run, steps>>

Init ==
    /\ args = Idle
    /\ result = Idle
    /\ Constructed

\* open_knowledge_base / open_recent_file: read a file, parse it
open_knowledge_base(text) ==
    /\ steps < MaxSteps
    /\ knowledge_base' = text
    /\ knowledge_path' = MdPath
    /\ heading_positions' = parse_knowledge_base(text, knowledge_path')
    /\ last_run' = NoRun
    /\ steps' = steps + 1
    /\ UNCHANGED <<args, result, speech, editor, view>>
    /\ UNCHANGED <<current_matches, fuzzy_match_var, fuzzy_ratio, search_cache,
                   last_search_query>>

\* reload_knowledge_base: read the file again (it may have changed on disk)
reload_knowledge_base(text) ==
    /\ steps < MaxSteps
    /\ knowledge_path # ""
    /\ knowledge_base' = text
    /\ heading_positions' = parse_knowledge_base(text, knowledge_path)
    /\ last_run' = NoRun
    /\ steps' = steps + 1
    /\ UNCHANGED <<args, result, speech, editor, view>>
    /\ UNCHANGED <<knowledge_path, current_matches, fuzzy_match_var, fuzzy_ratio,
                   search_cache, last_search_query>>

\* save_edited_content (tag-v3.2.1): the editor's text becomes the document
save_edited_content(edited_content) ==
    /\ steps < MaxSteps
    /\ knowledge_path # ""
    /\ knowledge_base' = edited_content
    /\ heading_positions' = parse_knowledge_base(edited_content, knowledge_path)
    /\ last_run' = NoRun
    /\ steps' = steps + 1
    /\ edit_mode' = FALSE
    /\ UNCHANGED <<args, result, speech, view, original_content>>
    /\ UNCHANGED <<knowledge_path, current_matches, fuzzy_match_var, fuzzy_ratio,
                   search_cache, last_search_query>>

\* the check box of the search menu
toggle_fuzzy ==
    /\ steps < MaxSteps
    /\ fuzzy_match_var' = ~fuzzy_match_var
    /\ last_run' = NoRun
    /\ steps' = steps + 1
    /\ UNCHANGED <<args, result, speech, editor, view>>
    /\ UNCHANGED <<knowledge_base, knowledge_path, heading_positions,
                   current_matches, fuzzy_ratio, search_cache,
                   last_search_query>>

\* the records of one type, in the order of the list
OfType(matches, type) == SelectSeq(matches, LAMBDA match : match.type = type)

HeadingRelevance == 20

ContentRelevance == 15

DisplayLimit == 60

DisplayKept == 57

\* min(100, int(score * factor)) for a score num/den
Relevance(score, factor) == Min({100, (score[1] * factor) \div score[2]})

\* the level of the first heading at this position, 1 when there is none
LevelAt(headings, position) ==
    LET hits == {i \in 1..Len(headings) : headings[i].position = position}
    IN  IF hits = {} THEN 1 ELSE headings[Min(hits)].level

\* the row that opens a group: it carries the tag "group" and no match_N
GroupRow(type) ==
    [group |-> TRUE, type |-> type, text |-> <<>>, relevance |-> 0,
     level |-> 0, match |-> -1]

\* _update_match_list: the rows of the tree from top to bottom. The heading
\* records come first under their group row, then the content records under
\* theirs; row i of a group carries the tag match_i, plus the number of
\* heading records for the content group. text is the text shown after the
\* icon (a heading is indented by its level).
_update_match_list(matches, headings) ==
    LET heading_matches == OfType(matches, "heading")
        content_matches == OfType(matches, "content")
        HeadingRows ==
            [i \in 1..Len(heading_matches) |->
                [group |-> FALSE, type |-> "heading",
                 text |-> heading_matches[i].text,
                 relevance |-> Relevance(heading_matches[i].score, HeadingRelevance),
                 level |-> LevelAt(headings, heading_matches[i].position),
                 match |-> i - 1]]
        ContentRows ==
            [i \in 1..Len(content_matches) |->
                [group |-> FALSE, type |-> "content",
                 text |-> IF Len(content_matches[i].text) > DisplayLimit
                          THEN SubSeq(content_matches[i].text, 1, DisplayKept)
                               \o Ellipsis
                          ELSE content_matches[i].text,
                 relevance |-> Relevance(content_matches[i].score, ContentRelevance),
                 level |-> 0,
                 match |-> (i - 1) + Len(heading_matches)]]
    IN  (IF heading_matches = <<>> THEN <<>>
         ELSE <<GroupRow("heading")>> \o HeadingRows)
        \o (IF content_matches = <<>> THEN <<>>
            ELSE <<GroupRow("content")>> \o ContentRows)

\* search_knowledge_base(query) with the threshold given
SearchWith(query, threshold) ==
    \E keywords \in Orderings(extract_keywords(query, Jieba, Nltk)) :
        \E r \in {SearchCall(query, keywords, knowledge_base, heading_positions,
                              fuzzy_match_var, threshold, search_cache,
                              current_matches)} :
            /\ current_matches' = r.current
            /\ search_cache' = r.cache
            /\ last_run' = r.run
            /\ last_search_query' = query
            /\ match_list' = IF r.run.outcome \in {"cached", "computed"}
                             THEN _update_match_list(r.current, heading_positions)
                             ELSE <<>>
            /\ selected' = NoSelection

search_knowledge_base(query) ==
    /\ steps < MaxSteps
    /\ SearchWith(query, fuzzy_ratio)
    /\ steps' = steps + 1
    /\ UNCHANGED <<args, result, speech, editor>>
    /\ UNCHANGED <<knowledge_base, knowledge_path, heading_positions,
                   fuzzy_match_var, fuzzy_ratio>>

\* save_setting of show_sensitivity_dialog: store the new threshold and
\* search again for the last query, when there is one
save_setting(value) ==
    /\ steps < MaxSteps
    /\ fuzzy_ratio' = value
    /\ IF last_search_query # <<>>
       THEN SearchWith(last_search_query, value)
       ELSE /\ last_run' = NoRun
            /\ UNCHANGED <<current_matches, search_cache, last_search_query,
                           view>>
    /\ steps' = steps + 1
    /\ UNCHANGED <<args, result, speech, editor>>
    /\ UNCHANGED <<knowledge_base, knowledge_path, heading_positions,
                   fuzzy_match_var>>

Next ==
    \/ \E text \in Docs : open_knowledge_base(text)
    \/ \E text \in Docs : reload_knowledge_base(text)
    \/ \E text \in Edits : save_edited_content(text)
    \/ toggle_fuzzy
    \/ \E query \in Queries : search_knowledge_base(query)
    \/ \E value \in Ratios : save_setting(value)

Spec == Init /\ [][Next]_vars

----------------------------------------------------------------------------
(* Ranking: searches over documents with many headings and paragraphs,     *)
(* started from the states the application is in after a document was      *)
(* opened and the search settings were chosen                              *)

\* the heading line i of a many-headings document: "# abc\n" for odd i,
\* "# abcd\n" for even i
HeadingLine(i) ==
    <<"#", " ">> \o Txt("a", "b", "c")
    \o (IF i % 2 = 0 THEN <<"d">> ELSE <<>>) \o <<"\n">>

RECURSIVE HeadingLines(_)
HeadingLines(n) == IF n = 0 THEN <<>> ELSE HeadingLines(n - 1) \o HeadingLine(n)

\* a document of n heading lines (one paragraph)
DocHeadings(n) == HeadingLines(n)

SuffixLetters == <<"b", "c", "e", "d", "j", "n", "s", "v">>

\* paragraph k (from 0): "abc" and two more letters, all distinct
ParaText(k) ==
    Txt("a", "b", "c")
    \o <<SuffixLetters[(k \div Len(SuffixLetters)) + 1],
         SuffixLetters[(k % Len(SuffixLetters)) + 1]>>

RECURSIVE ParaTexts(_)
ParaTexts(n) ==
    IF n = 0 THEN <<>> ELSE ParaTexts(n - 1) \o Blank \o ParaText(n - 1)

\* a document of one heading "# abc" and n paragraphs after it
DocParagraphs(n) == <<"#", " ">> \o Txt("a", "b", "c") \o ParaTexts(n)

\* n heading lines "# abd": each resembles the keyword "abc" and none
\* holds it
RECURSIVE NearHeadingLines(_)
NearHeadingLines(n) ==
    IF n = 0 THEN <<>>
    ELSE NearHeadingLines(n - 1) \o <<"#", " ">> \o Txt("a", "b", "d") \o <<"\n">>

\* a document of n headings "# abd" and the paragraph "abc" after them
DocNear(n) == NearHeadingLines(n) \o <<"\n">> \o Txt("a", "b", "c")

RankDocs == {DocA, DocB,
             DocHeadings(HeadingsEnough - 1), DocHeadings(HeadingsEnough),
             DocHeadings(HeadingsEnough + 1), DocHeadings(max_matches + 1),
             DocParagraphs(max_matches + 1),
             DocNear(HeadingsEnough - 1), DocNear(HeadingsEnough)}

\* "abc", "bcd abc"
RankQueries == {Txt("a", "b", "c"),
                Txt("b", "c", "d") \o <<" ">> \o Txt("a", "b", "c")}

\* one handler short of the bound: a document is open, the settings are any
InitRank ==
    /\ args = Idle
    /\ result = Idle
    /\ ConstructedRest
    /\ knowledge_base \in RankDocs
    /\ knowledge_path = MdPath
    /\ heading_positions = parse_knowledge_base(knowledge_base, knowledge_path)
    /\ current_matches = <<>>
    /\ fuzzy_match_var \in BOOLEAN
    /\ fuzzy_ratio \in Ratios
    /\ search_cache = <<>>
    /\ last_search_query = <<>>
    /\ last_run = NoRun
    /\ steps = MaxSteps - 1

NextRank == \E query \in RankQueries : search_knowledge_base(query)

SpecRank == InitRank /\ [][NextRank]_vars


----------------------------------------------------------------------------
(* The helpers of the search, each called on its own with arguments drawn  *)
(* from bounded sets                                                       *)

\* the headings a parsed document may have: "abc" at 2, "bcd" at 5, "abd" at 9
NearestHeadings ==
    <<[text |-> Txt("a", "b", "c"), position |-> 2, level |-> 1],
      [text |-> Txt("b", "c", "d"), position |-> 5, level |-> 2],
      [text |-> Txt("a", "b", "d"), position |-> 9, level |-> 1]>>

\* the heading lists, in position order as parse_knowledge_base leaves them
HeadingLists ==
    {[k \in 1..Cardinality(S) |-> NearestHeadings[Ascending(S)[k]]] :
        S \in SUBSET (1..Len(NearestHeadings))}

MaxOffset == 12

InitNearest ==
    /\ args \in [op : {"nearest"}, headings : HeadingLists, position : 0..MaxOffset]
    /\ result = Idle
    /\ Constructed

\* _find_nearest_heading(position) of full-v1.0
find_nearest_heading ==
    /\ result = Idle
    /\ result' = [op |-> "nearest", version |-> "full-v1.0",
                  heading |-> _find_nearest_heading(args.headings, args.position)]
    /\ UNCHANGED <<args, fields, speech, editor, view>>

\* _find_nearest_heading(position) of tag-v3.2.1
find_nearest_heading_v321 ==
    /\ result = Idle
    /\ result' = [op |-> "nearest", version |-> "tag-v3.2.1",
                  heading |-> _find_nearest_heading_v321(args.headings, args.position)]
    /\ UNCHANGED <<args, fields, speech, editor, view>>

NextNearest == find_nearest_heading \/ find_nearest_heading_v321

SpecNearest == InitNearest /\ [][NextNearest]_vars

\* n filler characters
Fill(n) == [i \in 1..n |-> "e"]

\* lengths of the text before and after the keyword, around the cut points
Leads == {0, 1, SnippetBefore - 1, SnippetBefore, SnippetBefore + 1,
          SnippetBefore + 10}

Trails == {0, 1, SnippetAfter - 15, SnippetAfter - 1, SnippetAfter,
           SnippetAfter + 1}

\* what stands between them: nothing, "abc", "ABc"
Middles == {<<>>, Txt("a", "b", "c"), Txt("A", "B", "c")}

SnippetParagraphs ==
    {Fill(a) \o mid \o Fill(b) : a \in Leads, b \in Trails, mid \in Middles}

\* "abc", "ab"
SnippetKeywords == {Txt("a", "b", "c"), <<"a", "b">>}

InitSnippet ==
    /\ args \in [op : {"snippet"}, paragraph : SnippetParagraphs,
                  keyword : SnippetKeywords]
    /\ result = Idle
    /\ Constructed

\* _create_snippet(paragraph, keyword_lower) as _search_in_content calls it
create_snippet ==
    /\ result = Idle
    /\ result' = [op |-> "snippet",
                  snippet |-> _create_snippet(args.paragraph, args.keyword)]
    /\ UNCHANGED <<args, fields, speech, editor, view>>

NextSnippet == create_snippet

SpecSnippet == InitSnippet /\ [][NextSnippet]_vars

\* heading lists of one or two headings with the texts "abc", "bcd", "Abcd"
PairTexts == {Txt("a", "b", "c"), Txt("b", "c", "d"), <<"A", "b", "c", "d">>}

PairHeadings ==
    {<<[text |-> t, position |-> 0, level |-> 1]>> : t \in PairTexts}
    \cup {<<[text |-> t, position |-> 0, level |-> 1],
            [text |-> u, position |-> 7, level |-> 2]>> :
              t \in PairTexts, u \in PairTexts}

\* "abc", "bcd", "ab", "ABC"
PairKeywords == {Txt("a", "b", "c"), Txt("b", "c", "d"), <<"a", "b">>,
                 Txt("A", "B", "C")}

InitPair ==
    /\ args \in {a \in [op : {"pair"}, headings : PairHeadings,
                         k1 : PairKeywords, k2 : PairKeywords,
                         use_fuzzy : BOOLEAN, fuzzy_threshold : Ratios] :
                     a.k1 # a.k2}
    /\ result = Idle
    /\ Constructed

\* _search_in_headings with the keyword k1 alone and with k1 and k2, in
\* either order
search_in_headings_pair ==
    /\ result = Idle
    /\ \E keywords \in Orderings({args.k1, args.k2}) :
           result' = [op |-> "pair",
                      one |-> _search_in_headings(<<args.k1>>, args.headings,
                                  args.use_fuzzy, args.fuzzy_threshold),
                      two |-> _search_in_headings(keywords, args.headings,
                                  args.use_fuzzy, args.fuzzy_threshold)]
    /\ UNCHANGED <<args, fields, speech, editor, view>>

NextPair == search_in_headings_pair

SpecPair == InitPair /\ [][NextPair]_vars

ExtractAlphabet == {"a", "B", "_", "U4E2D"}

MaxTextLen == 4

\* texts around the fallback's length limit: underscores alone (no token
\* class finds a word in them) and the word "aaa" followed by blanks
LongTexts ==
    {[i \in 1..n |-> "_"] : n \in (FallbackMaxLen - 1)..(FallbackMaxLen + 1)}
    \cup {[i \in 1..n |-> IF i <= MinWordLen THEN "a" ELSE " "] :
              n \in (FallbackMaxLen - 1)..(FallbackMaxLen + 1)}

\* the texts of at most MaxTextLen characters, and the long ones
ExtractTexts ==
    UNION {[1..n -> ExtractAlphabet] : n \in 0..MaxTextLen} \cup LongTexts

Availability == {"absent", "ok", "raises"}

InitExtract ==
    /\ args \in [op : {"extract"}, text : ExtractTexts,
                  jieba : Availability, nltk : Availability]
    /\ result = Idle
    /\ Constructed

\* extract_keywords(text) returns list(set(keywords))
extract ==
    /\ result = Idle
    /\ ~ExtractRaises(args.text, args.jieba)
    /\ \E keywords \in Orderings(extract_keywords(args.text, args.jieba, args.nltk)) :
           result' = [op |-> "extract", keywords |-> keywords]
    /\ UNCHANGED <<args, fields, speech, editor, view>>

\* extract_keywords(text) raises what jieba.cut raised
extract_raises ==
    /\ result = Idle
    /\ ExtractRaises(args.text, args.jieba)
    /\ result' = [op |-> "raised"]
    /\ UNCHANGED <<args, fields, speech, editor, view>>

NextExtract == extract \/ extract_raises

SpecExtract == InitExtract /\ [][NextExtract]_vars

\* the lines the parsed documents are made of: a numbered title, underlines
\* of '=' and of '-', an upper-case line, an empty line, a plain line and a
\* Markdown heading
ParseLines ==
    {<<"1", ".", " ", "A">>, <<"=", "=", "=">>, <<"-", "-", "-">>,
     <<"A", "B", "A", "B", "A">>, <<>>, <<"a", "b">>, <<"#", " ", "a">>}

MaxLines == 3

\* "\n".join(lines)
RECURSIVE JoinLines(_)
JoinLines(lines) ==
    IF Len(lines) = 0 THEN <<>>
    ELSE IF Len(lines) = 1 THEN lines[1]
    ELSE lines[1] \o <<"\n">> \o JoinLines(Tail(lines))

ParseDocs ==
    {JoinLines(lines) : lines \in UNION {[1..n -> ParseLines] : n \in 1..MaxLines}}

TxtPath == "kb.txt"

ParsePaths == MarkdownPaths \cup {TxtPath}

InitParse ==
    /\ args \in [op : {"parse"}, text : ParseDocs, path : ParsePaths]
    /\ result = Idle
    /\ Constructed

\* parse_knowledge_base() on the loaded text and path
parse ==
    /\ result = Idle
    /\ result' = [op |-> "parse",
                  headings |-> parse_knowledge_base(args.text, args.path)]
    /\ UNCHANGED <<args, fields, speech, editor, view>>

NextParse == parse

SpecParse == InitParse /\ [][NextParse]_vars

JavaBasics == <<"J", "a", "v", "a", " ", "B", "a", "s", "i", "c", "s">>

Jav == <<"j", "a", "v">>

\* keywords that are a substring of a heading, similar to one, or neither
ScoreKeywords ==
    {Jav, <<"j", "a", "v", "a">>, <<"J", "A", "V">>, <<"x">>, <<>>,
     <<"b", "a", "s", "i", "c", "s">>, JavaBasics, <<"a", "b", "d">>}

ScoreHeadings == {JavaBasics, <<"a", "b", "c">>, <<>>, <<"x", "y">>}

\* thresholds of the range 0..100: its ends, the default, the slider's
\* lowest value and the lowest positive value
Thresholds == {0, 1, 50, DefaultFuzzyRatio, 100}

InitScore ==
    /\ args \in [op : {"score"}, keyword : ScoreKeywords,
                  heading : ScoreHeadings, use_fuzzy : BOOLEAN,
                  fuzzy_threshold : Thresholds, ratio : {"ok", "raises"}]
    /\ result = Idle
    /\ Constructed

\* _search_in_headings for one keyword over a one-heading list, and the
\* score check_match gave the pair
score_heading ==
    /\ result = Idle
    /\ ~(args.use_fuzzy /\ args.ratio = "raises")
    /\ result' =
           [op |-> "score",
            score |-> check_match(ToLower(args.keyword), ToLower(args.heading),
                                  args.use_fuzzy, args.fuzzy_threshold),
            matches |-> _search_in_headings(<<args.keyword>>,
                            <<[text |-> args.heading, position |-> 0,
                               level |-> 1]>>,
                            args.use_fuzzy, args.fuzzy_threshold)]
    /\ UNCHANGED <<args, fields, speech, editor, view>>

\* the score of the pair when SequenceMatcher raises inside check_match
score_heading_except ==
    /\ result = Idle
    /\ args.use_fuzzy /\ args.ratio = "raises"
    /\ result' = [op |-> "except",
                  score |-> check_match_except(ToLower(args.keyword),
                                               ToLower(args.heading))]
    /\ UNCHANGED <<args, fields, speech, editor, view>>

NextScore == score_heading \/ score_heading_except

SpecScore == InitScore /\ [][NextScore]_vars

RedisCaching ==
    <<"R", "e", "d", "i", "s", " ", "C", "a", "c", "h", "i", "n", "g">>

JVMTuning == <<"J", "V", "M", " ", "T", "u", "n", "i", "n", "g">>

\* "Redis eviction policies are configurable."
RedisParagraph ==
    <<"R", "e", "d", "i", "s", " ", "e", "v", "i", "c", "t", "i", "o",
      "n", " ", "p", "o", "l", "i", "c", "i", "e", "s", " ", "a", "r",
      "e", " ", "c", "o", "n", "f", "i", "g", "u", "r", "a", "b", "l",
      "e", ".">>

\* "Redis eviction policies"
RedisEviction == SubSeq(RedisParagraph, 1, 23)

\* what stands between a heading line and the paragraph: a line break, an
\* empty line, or the seven characters that put the paragraph at offset 20
Gaps == {<<"\n">>, <<"\n", "\n">>, <<"\n", "\n", " ", " ", " ", " ", "\n">>}

\* the full texts: the first heading, the paragraph, the second heading
RedisTexts ==
    {RedisCaching \o g1 \o RedisParagraph \o g2 \o JVMTuning :
         g1 \in Gaps, g2 \in Gaps}

\* the heading records of the scenario, handed over as they are
RedisHeadings ==
    <<[text |-> RedisCaching, position |-> 0, level |-> 1],
      [text |-> JVMTuning, position |-> 50, level |-> 1]>>

RedisQueries == {<<"r", "e", "d", "i", "s">>, <<"R", "e", "d", "i", "s">>}

InitRedis ==
    /\ args \in [op : {"redis"}, text : RedisTexts, query : RedisQueries,
                  use_fuzzy : BOOLEAN, fuzzy_threshold : Thresholds]
    /\ result = Idle
    /\ Constructed

\* the search of the query over the scenario's text and headings: the
\* keywords of extract_keywords, then the heading search, the content
\* search, the sort and the truncation
search_redis ==
    /\ result = Idle
    /\ \E keywords \in Orderings(extract_keywords(args.query, Jieba, Nltk)) :
           result' = [op |-> "redis",
                      matches |-> ComputeMatches(keywords, args.text,
                                      RedisHeadings, args.use_fuzzy,
                                      args.fuzzy_threshold)]
    /\ UNCHANGED <<args, fields, speech, editor, view>>

NextRedis == search_redis

SpecRedis == InitRedis /\ [][NextRedis]_vars

\* documents whose heading lines match one pattern or two: a numbered title
\* that is underlined, an upper-case line that is underlined, two numbered
\* titles, two Markdown headings, a line that is no heading
AccumulateDocs ==
    {JoinLines(<<<<"1", ".", " ", "A">>, <<"-", "-", "-">>>>),
     JoinLines(<<<<"A", "B", "A", "B", "A">>, <<"=", "=", "=">>>>),
     JoinLines(<<<<"1", ".", " ", "A">>, <<"2", ".", " ", "A", "B">>>>),
     JoinLines(<<<<"#", " ", "a">>, <<"#", " ", "a", "b">>>>),
     <<"a", "b">>}

AccumulateWords == {<<"a">>, <<"a", "b">>, <<"b", "a">>}

\* the keyword lists that extract_keywords can return: no keyword twice
AccumulateKeywords ==
    {<<k>> : k \in AccumulateWords}
    \cup {<<p[1], p[2]>> : p \in {q \in AccumulateWords \X AccumulateWords :
                                        q[1] # q[2]}}

InitAccumulate ==
    /\ args \in [op : {"headings"}, text : AccumulateDocs, path : ParsePaths,
                  keywords : AccumulateKeywords, use_fuzzy : BOOLEAN,
                  fuzzy_threshold : Ratios]
    /\ result = Idle
    /\ Constructed

\* parse_knowledge_base() on the loaded text, then _search_in_headings
\* over the headings it found
search_in_headings ==
    /\ result = Idle
    /\ \E headings \in {parse_knowledge_base(args.text, args.path)} :
           result' = [op |-> "headings",
                      headings |-> headings,
                      matches |-> _search_in_headings(args.keywords, headings,
                                      args.use_fuzzy, args.fuzzy_threshold)]
    /\ UNCHANGED <<args, fields, speech, editor, view>>

NextAccumulate == search_in_headings

SpecAccumulate == InitAccumulate /\ [][NextAccumulate]_vars

\* a paragraph of n characters none of which is in a keyword
Padding(n) == [i \in 1..n |-> "z"]

\* paragraphs below the fuzzy length limit that hold a keyword, resemble one
\* or neither, and paragraphs of 499, 500 and 501 characters with and
\* without the word "abc" in them
ContentParagraphs ==
    {Txt("a", "b", "c"), <<"A", "b", "c", " ", "d">>, Txt("a", "b", "d"),
     <<"a", "b">>, Txt("x", "y", "z"), <<"a", "b", "d", "e", "f", "g">>}
    \cup {Padding(n) : n \in (FuzzyParagraphLimit - 1)..(FuzzyParagraphLimit + 1)}
    \cup {Txt("a", "b", "c") \o Padding(n - 3) :
              n \in (FuzzyParagraphLimit - 1)..(FuzzyParagraphLimit + 1)}

ContentWords ==
    {Txt("a", "b", "c"), Txt("A", "B", "C"), Txt("a", "b", "d"), <<"a", "b">>,
     <<"q">>, <<>>}

InitContentScore ==
    /\ args \in [op : {"para_score"}, keyword : ContentWords,
                  paragraph : ContentParagraphs, use_fuzzy : BOOLEAN,
                  fuzzy_threshold : Thresholds]
    /\ result = Idle
    /\ Constructed

\* para_score of _search_in_content for the keyword and the paragraph
para_score ==
    /\ result = Idle
    /\ result' = [op |-> "para_score",
                  score |-> ParaScore(ToLower(args.keyword),
                                [text |-> args.paragraph, position |-> 0,
                                 start |-> 0],
                                args.use_fuzzy, args.fuzzy_threshold)]
    /\ UNCHANGED <<args, fields, speech, editor, view>>

\* para_score for the keyword and the paragraph as the earlier versions
\* compute it
para_score_v2 ==
    /\ result = Idle
    /\ result' = [op |-> "para_score_v2",
                  score |-> ParaScore_v2(ToLower(args.keyword),
                                [text |-> args.paragraph, position |-> 0,
                                 start |-> 0],
                                args.use_fuzzy, args.fuzzy_threshold)]
    /\ UNCHANGED <<args, fields, speech, editor, view>>

NextContentScore == para_score \/ para_score_v2

SpecContentScore == InitContentScore /\ [][NextContentScore]_vars

\* paragraphs with the word "abc" or "ABc" at an offset before, at and
\* after the window's reach, and with a tail below, at and beyond it
RecordParagraphs ==
    {Fill(a) \o mid \o Fill(b) :
         a \in {0, SnippetBefore - 1, SnippetBefore, SnippetBefore + 1, 60},
         b \in {0, SnippetAfter - 1, SnippetAfter, SnippetAfter + 1, 100},
         mid \in {Txt("a", "b", "c"), Txt("A", "B", "c")}}

\* a keyword that resembles a paragraph without occurring in it
NearKeyword == Fill(60) \o Txt("a", "b", "d") \o Fill(SnippetAfter + 1)

\* keyword lists in the order the search visits them: the word alone, a
\* keyword with no character of the paragraph before and after the word,
\* and the resembling keyword before the word
RecordKeywords ==
    {<<Txt("a", "b", "c")>>, <<<<"q">>>>,
     <<<<"q">>, Txt("a", "b", "c")>>, <<Txt("a", "b", "c"), <<"q">>>>,
     <<NearKeyword, Txt("a", "b", "c")>>}

\* the paragraph the resembling keyword is searched in
NearParagraph == Fill(60) \o Txt("a", "b", "c") \o Fill(SnippetAfter + 1)

InitRecord ==
    /\ args \in {a \in [op : {"content"}, paragraph : RecordParagraphs,
                         keywords : RecordKeywords, use_fuzzy : BOOLEAN,
                         fuzzy_threshold : {0, DefaultFuzzyRatio}] :
                     a.keywords[1] = NearKeyword => a.paragraph = NearParagraph}
    /\ result = Idle
    /\ Constructed

\* _search_in_content over a document that is the one paragraph, with no
\* heading
search_in_content ==
    /\ result = Idle
    /\ result' = [op |-> "content",
                  matches |-> _search_in_content(args.keywords, args.paragraph,
                                  <<>>, args.use_fuzzy, args.fuzzy_threshold)]
    /\ UNCHANGED <<args, fields, speech, editor, view>>

NextRecord == search_in_content

SpecRecord == InitRecord /\ [][NextRecord]_vars

----------------------------------------------------------------------------
(* Searches over a cache that is nearly full, full, or one above the limit *)

\* the last letters of 23 distinct one-word queries "abc", "abd", ...
CacheLetters ==
    <<"c", "d", "e", "f", "g", "h", "i", "j", "k", "l", "m", "n",
      "o", "p", "q", "r", "s", "t", "u", "v", "w", "x", "y">>

CacheQuery(i) == <<"a", "b", CacheLetters[i]>>

\* the cache after the queries 1..n were searched in DocA, in this order,
\* with fuzzy matching on at the default threshold
FilledCache(n) ==
    [i \in 1..n |->
        [key |-> CacheKey(CacheQuery(i), TRUE, DefaultFuzzyRatio),
         value |-> ComputeMatches(<<CacheQuery(i)>>, DocA,
                                  parse_knowledge_base(DocA, MdPath),
                                  TRUE, DefaultFuzzyRatio)]]

\* the oldest, the second and two recent cached queries, and two new ones
CacheQueries ==
    {CacheQuery(1), CacheQuery(2), CacheQuery(CacheLimit - 1),
     CacheQuery(CacheLimit + 1), CacheQuery(CacheLimit + 2),
     CacheQuery(CacheLimit + 3)}

InitCache ==
    /\ args = Idle
    /\ result = Idle
    /\ ConstructedQuiet
    /\ knowledge_base = DocA
    /\ knowledge_path = MdPath
    /\ heading_positions = parse_knowledge_base(knowledge_base, knowledge_path)
    /\ fuzzy_match_var = TRUE
    /\ fuzzy_ratio = DefaultFuzzyRatio
    /\ \E n \in {CacheLimit - 1, CacheLimit, CacheLimit + 1} :
          /\ search_cache = FilledCache(n)
          /\ current_matches = search_cache[n].value
          /\ match_list = _update_match_list(current_matches, heading_positions)
          /\ selected = NoSelection
          /\ last_search_query = CacheQuery(n)
    /\ last_run = NoRun
    /\ steps = MaxSteps - 2

NextCache ==
    \/ \E query \in CacheQueries : search_knowledge_base(query)
    \/ toggle_fuzzy

SpecCache == InitCache /\ [][NextCache]_vars

----------------------------------------------------------------------------
(* Speech recognition (full-v1.0 lines 4114-4235): the listen button, the  *)
(* recognition threads it starts and the callbacks they give to the UI     *)
(* thread. speech_recognition is installed and the engine is "Google".     *)

max_errors == 5

HistoryLimit == 5

\* callbacks waiting in root.after at the same time
MaxQueue == 2

\* the text every successful recognition returns: "abc"
Recognized == Txt("a", "b", "c")

ListenOutcomes == {"text", "timeout", "unknown", "request", "error"}

\* a thread that runs start_listening or a recognition loop
Active(t) == threads[t].pc \in {"starting", "adjusting", "loop", "listen"}

\* a thread inside the while loop of _run_speech_recognition_loop
InLoop(t) == threads[t].pc \in {"loop", "listen"}

\* the slot a new thread gets: the first one that holds no running thread,
\* 0 when MaxThreads threads are running
FreeThread ==
    LET free == {t \in 1..MaxThreads : ~Active(t)}
    IN  IF free = {} THEN 0 ELSE Min(free)

ToggleCallback == [name |-> "toggle_listening", text |-> <<>>]

SearchCallback(text) == [name |-> "search_knowledge_base", text |-> text]

Finished == [pc |-> "done", errors |-> 0]

\* lines 4129-4141 of toggle_listening: stop listening, or start listening
\* and start a thread that runs start_listening
SwitchListening ==
    IF listening
    THEN /\ listening' = FALSE
         /\ threads' = threads
    ELSE /\ FreeThread # 0
         /\ listening' = TRUE
         /\ threads' = [threads EXCEPT ![FreeThread] =
                            [pc |-> "starting", errors |-> 0]]

\* the user clicks the listen button
toggle_listening ==
    /\ steps < MaxSteps
    /\ knowledge_path # ""
    /\ SwitchListening
    /\ steps' = steps + 1
    /\ UNCHANGED <<mic_holder, after_queue, text_history>>
    /\ UNCHANGED <<knowledge_base, knowledge_path, heading_positions,
                   current_matches, fuzzy_match_var, fuzzy_ratio, search_cache,
                   last_search_query, last_run, args, result, editor, view>>

\* the UI thread runs the oldest callback of root.after(0, ...); a loop
\* runs only after a document was loaded, so toggle_listening passes its
\* test of knowledge_path
after_callback ==
    /\ after_queue # <<>>
    /\ after_queue' = Tail(after_queue)
    /\ \/ /\ Head(after_queue).name = "toggle_listening"
          /\ knowledge_path # ""
          /\ SwitchListening
          /\ UNCHANGED <<current_matches, search_cache, last_search_query,
                         last_run, view>>
       \/ /\ Head(after_queue).name = "search_knowledge_base"
          /\ SearchWith(Head(after_queue).text, fuzzy_ratio)
          /\ UNCHANGED <<listening, threads>>
    /\ UNCHANGED <<mic_holder, text_history>>
    /\ UNCHANGED <<knowledge_base, knowledge_path, heading_positions,
                   fuzzy_match_var, fuzzy_ratio, steps, args, result, editor>>

\* what the threads leave alone
SpeechFrame ==
    UNCHANGED <<knowledge_base, knowledge_path, heading_positions,
                current_matches, fuzzy_match_var, fuzzy_ratio, search_cache,
                last_search_query, last_run, steps, args, result, editor, view>>

\* start_listening up to "with self.mic as source" (4162): entering the
\* microphone while another thread is inside it raises, and the handler at
\* 4168-4172 switches listening off and returns
start_listening(t) ==
    /\ threads[t].pc = "starting"
    /\ IF mic_holder = 0
       THEN /\ mic_holder' = t
            /\ threads' = [threads EXCEPT ![t].pc = "adjusting"]
            /\ UNCHANGED listening
       ELSE /\ listening' = FALSE
            /\ threads' = [threads EXCEPT ![t] = Finished]
            /\ UNCHANGED mic_holder
    /\ UNCHANGED <<after_queue, text_history>>
    /\ SpeechFrame

\* adjust_for_ambient_noise returns, the with block ends and
\* _run_speech_recognition_loop is entered with recognition_errors = 0
adjust_for_ambient_noise(t) ==
    /\ threads[t].pc = "adjusting"
    /\ mic_holder' = 0
    /\ threads' = [threads EXCEPT ![t] = [pc |-> "loop", errors |-> 0]]
    /\ UNCHANGED <<listening, after_queue, text_history>>
    /\ SpeechFrame

\* the handlers of UnknownValueError (4211-4217) and Exception (4228-4235):
\* count the error; at max_errors schedule toggle_listening and break
CountError(t) ==
    IF threads[t].errors + 1 >= max_errors
    THEN /\ Len(after_queue) < MaxQueue
         /\ after_queue' = Append(after_queue, ToggleCallback)
         /\ threads' = [threads EXCEPT ![t] = Finished]
    ELSE /\ after_queue' = after_queue
         /\ threads' = [threads EXCEPT ![t] =
                            [pc |-> "loop", errors |-> threads[t].errors + 1]]

\* the test of "while self.listening" and the entry of "with self.mic"
\* (4183-4185); a microphone held by another thread raises
loop_test(t) ==
    /\ threads[t].pc = "loop"
    /\ IF ~listening
       THEN /\ threads' = [threads EXCEPT ![t] = Finished]
            /\ UNCHANGED <<mic_holder, after_queue>>
       ELSE IF mic_holder = 0
       THEN /\ mic_holder' = t
            /\ threads' = [threads EXCEPT ![t].pc = "listen"]
            /\ UNCHANGED after_queue
       ELSE /\ CountError(t)
            /\ UNCHANGED mic_holder
    /\ UNCHANGED <<listening, text_history>>
    /\ SpeechFrame

\* listen returns or raises, the with block ends, and the audio is
\* recognized (4188-4235)
listen_returns(t, outcome) ==
    /\ threads[t].pc = "listen"
    /\ mic_holder' = 0
    /\ CASE outcome = "text" ->
              /\ Len(after_queue) < MaxQueue
              /\ text_history' =
                    LET history == Append(text_history, Recognized)
                    IN  IF Len(history) > HistoryLimit
                        THEN Tail(history) ELSE history
              /\ after_queue' = Append(after_queue, SearchCallback(Recognized))
              /\ threads' = [threads EXCEPT ![t] = [pc |-> "loop", errors |-> 0]]
         [] outcome = "timeout" ->
              /\ threads' = [threads EXCEPT ![t].pc = "loop"]
              /\ UNCHANGED <<after_queue, text_history>>
         [] outcome = "request" ->
              /\ Len(after_queue) < MaxQueue
              /\ after_queue' = Append(after_queue, ToggleCallback)
              /\ threads' = [threads EXCEPT ![t] = Finished]
              /\ UNCHANGED text_history
         [] OTHER ->
              /\ CountError(t)
              /\ UNCHANGED text_history
    /\ UNCHANGED listening
    /\ SpeechFrame

\* one step of recognition thread t
thread_step(t) ==
    \/ start_listening(t)
    \/ adjust_for_ambient_noise(t)
    \/ loop_test(t)
    \/ \E outcome \in ListenOutcomes : listen_returns(t, outcome)

InitSpeech ==
    /\ args = Idle
    /\ result = Idle
    /\ ConstructedRest
    /\ knowledge_base = DocA
    /\ knowledge_path = MdPath
    /\ heading_positions = parse_knowledge_base(knowledge_base, knowledge_path)
    /\ current_matches = <<>>
    /\ fuzzy_match_var = TRUE
    /\ fuzzy_ratio = DefaultFuzzyRatio
    /\ search_cache = <<>>
    /\ last_search_query = <<>>
    /\ last_run = NoRun
    /\ steps = MaxSteps - 3

NextSpeech ==
    \/ toggle_listening
    \/ after_callback
    \/ \E t \in 1..MaxThreads : thread_step(t)

SpecSpeech == InitSpeech /\ [][NextSpeech]_vars

\* after_callback can run: a callback waits, and the thread a scheduled
\* toggle may have to start has a slot
CallbackReady ==
    /\ after_queue # <<>>
    /\ Head(after_queue).name = "toggle_listening" => (listening \/ FreeThread # 0)

\* the same with the scheduling Tk and the interpreter give: the UI thread
\* runs the callbacks it was given (weak fairness of after_callback, with
\* its enabling condition written out), and every thread goes on running
SpecSpeechFair ==
    /\ SpecSpeech
    /\ []<>(~CallbackReady) \/ []<><<after_callback>>_vars
    /\ \A t \in 1..MaxThreads : WF_vars(thread_step(t))

----------------------------------------------------------------------------
(* Editing (tag-v3.2.1 lines 1307-1388): the edit toolbar holds the save    *)
(* and cancel buttons and is shown while the edit mode is on                *)

\* enable_edit_mode: keep a backup of the document unless the attribute
\* original_content exists already, and show the toolbar
enable_edit_mode ==
    /\ steps < MaxSteps
    /\ knowledge_base # <<>>
    /\ original_content' = IF original_content.has THEN original_content
                           ELSE [has |-> TRUE, text |-> knowledge_base]
    /\ edit_mode' = TRUE
    /\ last_run' = NoRun
    /\ steps' = steps + 1
    /\ UNCHANGED <<knowledge_base, knowledge_path, heading_positions,
                   current_matches, fuzzy_match_var, fuzzy_ratio, search_cache,
                   last_search_query, args, result, speech, view>>

\* cancel_editing: put the backup back when there is one and delete it;
\* heading_positions is not computed again
cancel_editing ==
    /\ steps < MaxSteps
    /\ knowledge_base' = IF original_content.has THEN original_content.text
                         ELSE knowledge_base
    /\ original_content' = NoOriginal
    /\ edit_mode' = FALSE
    /\ last_run' = NoRun
    /\ steps' = steps + 1
    /\ UNCHANGED <<knowledge_path, heading_positions,
                   current_matches, fuzzy_match_var, fuzzy_ratio, search_cache,
                   last_search_query, args, result, speech, view>>

\* texts of the editor when "save" is clicked
EditedTexts ==
    {DocEdited, DocA \o <<"\n">>, DocB \o <<"\n">>,
     <<"#", " ">> \o Txt("a", "b", "d") \o <<"\n">>,
     <<"#", " ">> \o Txt("b", "c", "d") \o <<"\n">>}

InitEdit ==
    /\ args = Idle
    /\ result = Idle
    /\ ConstructedRest
    /\ knowledge_base \in Docs \cup Edits
    /\ knowledge_path = MdPath
    /\ heading_positions = parse_knowledge_base(knowledge_base, knowledge_path)
    /\ current_matches = <<>>
    /\ fuzzy_match_var = TRUE
    /\ fuzzy_ratio = DefaultFuzzyRatio
    /\ search_cache = <<>>
    /\ last_search_query = <<>>
    /\ last_run = NoRun
    /\ steps = 0

\* "edit document" is a menu entry; save and cancel are on the toolbar
NextEdit ==
    \/ enable_edit_mode
    \/ edit_mode /\ \E text \in EditedTexts : save_edited_content(text)
    \/ edit_mode /\ cancel_editing

SpecEdit == InitEdit /\ [][NextEdit]_vars

----------------------------------------------------------------------------
(* Selecting a row of the result list (full-v1.0 lines 4823-4888)          *)

\* on_match_select for row i of the tree: a group row is skipped; the
\* index of the tag match_N is taken and must be inside current_matches;
\* the record current_matches[N] is the one the view jumps to
on_match_select(i) ==
    /\ i \in 1..Len(match_list)
    /\ ~match_list[i].group
    /\ match_list[i].match < Len(current_matches)
    /\ selected' = [item |-> i, match |-> match_list[i].match]
    /\ last_run' = NoRun
    /\ UNCHANGED <<knowledge_base, knowledge_path, heading_positions,
                   current_matches, fuzzy_match_var, fuzzy_ratio, search_cache,
                   last_search_query, steps, args, result, speech, editor,
                   match_list>>

\* rows a result list can have: the group rows and max_matches records
MaxRows == max_matches + 2

InitSelect ==
    /\ args = Idle
    /\ result = Idle
    /\ ConstructedRest
    /\ knowledge_base \in Docs
    /\ knowledge_path = MdPath
    /\ heading_positions = parse_knowledge_base(knowledge_base, knowledge_path)
    /\ current_matches = <<>>
    /\ fuzzy_match_var \in BOOLEAN
    /\ fuzzy_ratio \in Ratios
    /\ search_cache = <<>>
    /\ last_search_query = <<>>
    /\ last_run = NoRun
    /\ steps = MaxSteps - 1

NextSelect ==
    \/ \E query \in Queries : search_knowledge_base(query)
    \/ \E i \in 1..MaxRows : on_match_select(i)

SpecSelect == InitSelect /\ [][NextSelect]_vars

----------------------------------------------------------------------------
(* Properties of the ranked match list                                     *)

Sorted(matches) ==
    \A i \in 1..(Len(matches) - 1) :
        FracGE(matches[i].score, matches[i + 1].score)

\* C1 - sort invariant: the match list shown after any search, computed or
\* taken from the cache, is ordered by non-increasing score: every record's
\* score is >= the score of the record after it
SortInvariant == Sorted(current_matches)

\* a search was computed whose records were found in an order that is not
\* the score order, and two or more of them are shown
SortWitness ==
    /\ last_run.outcome = "computed"
    /\ ~Sorted(last_run.found)
    /\ Len(current_matches) >= 2
    /\ Sorted(current_matches)

\* the records of found that are not among the kept ones
Dropped(found, kept) == Range(found) \ Range(kept)

\* C2 - truncation invariant: a computed search shows min(30, N) records, N
\* the number of records found (heading records, and content records when
\* content search ran); the records shown are records found, and no record
\* left out has a score strictly greater than a record shown
TruncationInvariant ==
    last_run.outcome = "computed" =>
        /\ Len(current_matches) = Min({max_matches, Len(last_run.found)})
        /\ Range(current_matches) \subseteq Range(last_run.found)
        /\ \A d \in Dropped(last_run.found, current_matches) :
               \A k \in Range(current_matches) : ~FracGT(d.score, k.score)

\* more than 30 records were found, the last one found with a score greater
\* than another's, and 30 are shown
TruncationWitness ==
    /\ last_run.outcome = "computed"
    /\ Len(last_run.found) > max_matches
    /\ \E i \in 1..Len(last_run.found) :
           FracGT(last_run.found[Len(last_run.found)].score, last_run.found[i].score)
    /\ Len(current_matches) = max_matches
    /\ Dropped(last_run.found, current_matches) # {}

ContentRecords(matches) == {m \in Range(matches) : m.type = "content"}

\* C3 - heading-priority shortcut: in a computed search, content search ran
\* exactly when heading search gave fewer than 10 records: the records
\* found are the heading records followed by what content search gives when
\* there are fewer than 10 heading records, and the heading records alone,
\* with no record of type content in the result, when there are 10 or more
HeadingPriority ==
    last_run.outcome = "computed" =>
        LET heading_matches == SubSeq(last_run.found, 1, last_run.heading_count)
            content_matches ==
                _search_in_content(last_run.keywords, knowledge_base,
                                   heading_positions, fuzzy_match_var, fuzzy_ratio)
        IN  /\ last_run.content_ran <=> last_run.heading_count < 10
            /\ last_run.heading_count < 10 =>
                   last_run.found = FoundAfter(heading_matches, last_run.keywords,
                                               knowledge_base, heading_positions,
                                               fuzzy_match_var, fuzzy_ratio)
            /\ last_run.heading_count < 10 /\ content_matches # <<>> =>
                   ContentRecords(last_run.found) # {}
            /\ last_run.heading_count >= 10 =>
                   /\ last_run.found = heading_matches
                   /\ ContentRecords(current_matches) = {}

\* heading search gave exactly 10 records, content search would have found
\* records, and none of type content is shown
HeadingPriorityWitness ==
    /\ last_run.outcome = "computed"
    /\ last_run.heading_count = 10
    /\ ~last_run.content_ran
    /\ _search_in_content(last_run.keywords, knowledge_base, heading_positions,
                          fuzzy_match_var, fuzzy_ratio) # <<>>
    /\ Len(current_matches) = 10
    /\ ContentRecords(current_matches) = {}

\* what C4 compares of a match list: the order, and each record's
\* position, type, score and text
Shown(matches) ==
    [i \in 1..Len(matches) |->
        [position |-> matches[i].position, type |-> matches[i].type,
         score |-> matches[i].score, text |-> matches[i].text]]

\* C4 - determinism: for a fixed keyword set, text, heading list, fuzzy
\* flag and threshold a computed search shows the same ordered list (same
\* order, positions, types, scores, texts) whatever the order in which
\* list(set(keywords)) lets the keywords be iterated
OrderIndependent ==
    last_run.outcome = "computed" =>
        \A keywords \in Orderings(Range(last_run.keywords)) :
            Shown(ComputeMatches(keywords, knowledge_base, heading_positions,
                                 fuzzy_match_var, fuzzy_ratio))
                = Shown(current_matches)

\* C5 - the cache is not consulted for correctness: the list a search
\* shows, computed or taken from the cache, is the list an uncached
\* computation over the document and heading list now loaded gives (for
\* some iteration order of the keywords)
CacheFresh ==
    last_run.outcome \in {"cached", "computed"} =>
        \E keywords \in Orderings(Range(last_run.keywords)) :
            current_matches =
                ComputeMatches(keywords, knowledge_base, heading_positions,
                               fuzzy_match_var, fuzzy_ratio)

\* the processed paragraphs that some keyword of the run matches
MatchedParagraphs ==
    {para \in Range(ProcessedParagraphs(knowledge_base)) :
        \E keyword \in Range(last_run.keywords) :
            FracGT(ParaScore(ToLower(keyword), para, fuzzy_match_var, fuzzy_ratio),
                   Zero)}

\* C6 - content match position: when content search ran, the positions of
\* the content records found are the true start offsets of the paragraphs
\* some keyword matches, one record for each such paragraph, also when a
\* paragraph's text occurs earlier in the document
ContentPositions ==
    last_run.outcome = "computed" /\ last_run.content_ran =>
        /\ {m.position : m \in ContentRecords(last_run.found)}
               = {para.start : para \in MatchedParagraphs}
        /\ Cardinality(ContentRecords(last_run.found))
               = Cardinality(MatchedParagraphs)

\* the sum of the contributions of the first n keywords to the paragraph
RECURSIVE ContributionSum(_, _, _)
ContributionSum(keywords, n, para) ==
    IF n = 0 THEN Zero
    ELSE FracAdd(ContributionSum(keywords, n - 1, para),
                 ParaScore(ToLower(keywords[n]), para,
                           fuzzy_match_var, fuzzy_ratio))

\* C20 - content accumulation: content records are keyed by paragraph start
\* offset, at most one for a paragraph; each keyword contributes to a
\* record's score at most once, so that a record matched by k keywords has
\* as score the sum of those k single contributions to its paragraph, also
\* when the document holds paragraphs of identical text
ContentAccumulation ==
    last_run.outcome = "computed" /\ last_run.content_ran =>
        Once(ProcessedParagraphs(knowledge_base), LAMBDA paras :
            /\ \A m1, m2 \in ContentRecords(last_run.found) :
                   m1.position = m2.position => m1 = m2
            /\ \A m \in ContentRecords(last_run.found) :
                   /\ \A i, j \in 1..Len(m.keywords) :
                          m.keywords[i] = m.keywords[j] => i = j
                   /\ \E k \in 1..Len(paras) :
                          /\ paras[k].start = m.position
                          /\ m.score = ContributionSum(m.keywords,
                                           Len(m.keywords), paras[k]))

----------------------------------------------------------------------------
(* Properties of the helpers                                               *)

\* the labels C7 allows for a paragraph at offset p
AllowedLabels(headings, p) ==
    LET H == Range(headings)
        preceding == {h \in H : h.position <= p}
        dist(h) == IF h.position < p THEN p - h.position ELSE h.position - p
    IN  IF preceding # {}
        THEN {h.text : h \in {g \in preceding :
                                 \A f \in preceding : f.position <= g.position}}
        ELSE IF H # {}
        THEN {h.text : h \in {g \in H : \A f \in H : dist(g) <= dist(f)}}
        ELSE {UntitledLabel}

\* C7 - nearest-heading label, in every version that defines
\* _find_nearest_heading: the label of a content match at offset p is the
\* text of the last heading at or before p; when there is none, the text of
\* the heading at the least distance from p; the untitled label only when
\* the heading list is empty
NearestLabel ==
    result.op = "nearest" =>
        HeadingLabel(result.heading) \in AllowedLabels(args.headings, args.position)

\* C8 - snippet bounds: the snippet is at most 6 characters longer than the
\* paragraph, and it is the paragraph itself when the paragraph has at most
\* 100 characters
SnippetBounds ==
    result.op = "snippet" =>
        /\ Len(result.snippet) <= Len(args.paragraph) + 6
        /\ Len(args.paragraph) <= 100 => result.snippet = args.paragraph

\* a paragraph of more than 100 characters was cut on both sides of the
\* keyword, an ellipsis at either end
SnippetWitness ==
    /\ result.op = "snippet"
    /\ Len(args.paragraph) > 100
    /\ Len(result.snippet) > 6
    /\ SubSeq(result.snippet, 1, 3) = Ellipsis
    /\ SubSeq(result.snippet, Len(result.snippet) - 2, Len(result.snippet)) = Ellipsis
    /\ Len(result.snippet) <= Len(args.paragraph) + 6

\* the score of the record for the heading at position in matches, zero
\* when it has none
ScoreAt(matches, position) ==
    LET e == FirstAt(matches, position, {"heading"})
    IN  IF e = 0 THEN Zero ELSE matches[e].score

\* the headings that k1 matches and that the other keyword k2 matches too
BothMatch ==
    {h \in Range(args.headings) :
        /\ FracGT(ScoreAt(result.one, h.position), Zero)
        /\ FracGT(check_match(ToLower(args.k2), ToLower(h.text),
                              args.use_fuzzy, args.fuzzy_threshold), Zero)}

\* C9 - score monotonicity: a heading that matches k1 and that a different
\* keyword k2 matches too has a strictly greater score in the search with
\* k1 and k2 (in either order) than in the search with k1 alone
ScoreMonotone ==
    result.op = "pair" =>
        \A h \in BothMatch :
            FracGT(ScoreAt(result.two, h.position), ScoreAt(result.one, h.position))

\* both keywords match some heading, which scores more with the two
ScoreMonotoneWitness ==
    /\ result.op = "pair"
    /\ \E h \in BothMatch :
           FracGT(ScoreAt(result.two, h.position), ScoreAt(result.one, h.position))

\* C10 - the extractor's output is lowercased and deduplicated: a keyword
\* with no CJK character holds no upper-case ASCII letter, also when it
\* comes from the technical-term class or the short-query fallback, and no
\* keyword is listed twice
ExtractNormalized ==
    result.op = "extract" =>
        /\ \A i \in 1..Len(result.keywords) :
               Range(result.keywords[i]) \cap CJKChars = {} =>
                   Range(result.keywords[i]) \cap UpperLetters = {}
        /\ \A i, j \in 1..Len(result.keywords) :
               result.keywords[i] = result.keywords[j] => i = j

\* C11 - extractor fallback: when no token class produces a keyword the
\* result is the original text alone if the text has fewer than 50
\* characters (the empty text included) and is empty if it has 50 or more;
\* when some keyword was produced the result is the produced keywords, the
\* fallback adding nothing
ExtractorFallback ==
    result.op = "extract" =>
        LET produced == Range(TokenKeywords(args.text, args.jieba, args.nltk))
        IN  Range(result.keywords) =
                IF produced # {} THEN produced
                ELSE IF Len(args.text) < 50 THEN {args.text} ELSE {}

\* a text of 50 or more characters gave no keyword at all
ExtractorFallbackWitness ==
    /\ result.op = "extract"
    /\ Len(args.text) >= 50
    /\ TokenKeywords(args.text, args.jieba, args.nltk) = <<>>
    /\ result.keywords = <<>>

\* C12 - extraction never aborts: a sub-extractor that fails (the CJK
\* segmenter, the stop-word list, the tokenizer, a missing dependency)
\* never makes extract_keywords raise
ExtractionNeverAborts == result.op # "raised"

\* C13 - empty keyword set: a search whose query yields no keyword ends
\* without error and leaves the empty list as the current match list,
\* whatever earlier searches returned
EmptyKeywordsEmptyList ==
    last_run.outcome = "nokeywords" => current_matches = <<>>

\* C14 - heading list invariant: after parse_knowledge_base on any document,
\* Markdown or plain text, the heading list is in ascending order of
\* position and no two heading records have the same position
HeadingListInvariant ==
    result.op = "parse" =>
        /\ \A i \in 1..(Len(result.headings) - 1) :
               result.headings[i].position <= result.headings[i + 1].position
        /\ \A i, j \in 1..Len(result.headings) :
               result.headings[i].position = result.headings[j].position
                   => i = j

\* C15 - exact-mode scenario, as the code has it: with fuzzy matching
\* disabled the keyword "jav" is a substring of the lowercased heading
\* "Java Basics", so the search produces exactly one heading record for
\* that heading, of score 1 and with the keyword "jav"
ExactModeSubstring ==
    (/\ result.op = "score"
     /\ ~args.use_fuzzy
     /\ args.keyword = Jav
     /\ args.heading = JavaBasics)
    => result.matches = <<[text |-> JavaBasics, position |-> 0, score |-> One,
                           type |-> "heading", keywords |-> <<Jav>>]>>

\* the scenario was run: fuzzy disabled, "jav" against "Java Basics"
ExactModeWitness ==
    /\ result.op = "score"
    /\ ~args.use_fuzzy
    /\ args.keyword = Jav
    /\ args.heading = JavaBasics
    /\ Len(result.matches) = 1

\* C15 as stated: with fuzzy matching disabled the keyword "jav" gives no
\* heading match record for "Java Basics"
ExactModeNoMatch ==
    (/\ result.op = "score"
     /\ ~args.use_fuzzy
     /\ args.keyword = Jav
     /\ args.heading = JavaBasics)
    => result.matches = <<>>

\* C16 - Redis scenario: with the headings "Redis Caching" (position 0) and
\* "JVM Tuning" (position 50), a full text holding those headings and the
\* paragraph "Redis eviction policies are configurable.", and the query
\* "redis", the search returns exactly two match records: one heading
\* record for "Redis Caching" and one content record whose text starts with
\* "Redis Caching - " and contains "Redis eviction policies"
RedisTwoMatches ==
    result.op = "redis" =>
        /\ Len(result.matches) = 2
        /\ \E i, j \in 1..Len(result.matches) :
               /\ result.matches[i].type = "heading"
               /\ result.matches[i].text = RedisCaching
               /\ result.matches[j].type = "content"
               /\ OccursAt(result.matches[j].text,
                           RedisCaching \o <<" ", "-", " ">>, 0)
               /\ Contains(result.matches[j].text, RedisEviction)

\* k occurs in h as a run of consecutive characters
IsSubstring(h, k) ==
    \E p \in 0..(Len(h) - Len(k)) : SubSeq(h, p + 1, p + Len(k)) = k

\* C17 - per-pair heading score: for a keyword and a heading text, both
\* lowercased, the score is, with fuzzy matching enabled, 1 + ratio/100 when
\* ratio >= fuzzy_threshold, else 1 when the keyword is a substring of the
\* heading text, else 0; with fuzzy matching disabled, 1 when the keyword is
\* a substring of the heading text, else 0; and when the similarity
\* computation fails the substring rule gives the score
PairScoreRule ==
    result.op \in {"score", "except"} =>
        LET k == ToLower(args.keyword)
            h == ToLower(args.heading)
            ratio == Ratio100(k, h)
            substring == IF IsSubstring(h, k) THEN One ELSE Zero
        IN  result.score =
                IF result.op = "except" \/ ~args.use_fuzzy THEN substring
                ELSE IF FracGE(ratio, Frac(args.fuzzy_threshold, 1))
                THEN FracAdd(One, Frac(ratio[1], ratio[2] * 100))
                ELSE substring

\* fuzzy matching enabled, the similarity below the threshold, and the
\* keyword a substring of the heading: the score is 1
PairScoreWitness ==
    /\ result.op = "score"
    /\ args.use_fuzzy
    /\ ~FracGE(Ratio100(ToLower(args.keyword), ToLower(args.heading)),
               Frac(args.fuzzy_threshold, 1))
    /\ IsSubstring(ToLower(args.heading), ToLower(args.keyword))
    /\ result.score = One

\* the similarity of the lowercased pair reaches the threshold, so that the
\* fuzzy branch gives the score
FuzzyBranch ==
    /\ result.op = "score"
    /\ args.use_fuzzy
    /\ FracGE(Ratio100(ToLower(args.keyword), ToLower(args.heading)),
              Frac(args.fuzzy_threshold, 1))

\* C18 - the fuzzy branch's score, as the code has it: whenever the fuzzy
\* branch assigns a heading score (fuzzy enabled and ratio >= threshold) the
\* per-keyword score is at least 1, and it is strictly greater than 1, the
\* score of a substring-only hit, exactly when ratio > 0; so it is strictly
\* greater than 1 for every threshold in 1..100
FuzzyScoreAtLeastOne ==
    FuzzyBranch =>
        LET ratio == Ratio100(ToLower(args.keyword), ToLower(args.heading))
        IN  /\ FracGE(result.score, One)
            /\ FracGT(result.score, One) <=> FracGT(ratio, Zero)
            /\ args.fuzzy_threshold >= 1 => FracGT(result.score, One)

\* threshold 0 and a pair with nothing in common: ratio 0 reaches the
\* threshold and the fuzzy branch gives the score 1
FuzzyScoreWitness ==
    /\ FuzzyBranch
    /\ args.fuzzy_threshold = 0
    /\ Ratio100(ToLower(args.keyword), ToLower(args.heading)) = Zero
    /\ result.score = One

\* C18 as stated: whenever the fuzzy branch assigns a heading score, that
\* score is strictly greater than 1, for every threshold in 0..100 and
\* every ratio in 0..100
FuzzyScoreAboveOne == FuzzyBranch => FracGT(result.score, One)

\* the score of keyword number n of keywords against the heading text
PairScore(keywords, n, heading) ==
    check_match(ToLower(keywords[n]), ToLower(heading.text),
                args.use_fuzzy, args.fuzzy_threshold)

\* the sum of the scores of the first n keywords against the heading
RECURSIVE ScoreSum(_, _, _)
ScoreSum(keywords, n, heading) ==
    IF n = 0 THEN Zero
    ELSE FracAdd(ScoreSum(keywords, n - 1, heading),
                 PairScore(keywords, n, heading))

\* C19 - heading accumulation: _search_in_headings returns at most one
\* record per heading; the record of a heading has as score the sum of the
\* per-keyword scores of exactly the keywords scoring more than 0 against
\* that heading, each counted once, and as keyword list those keywords
\* without duplicates; a heading no keyword scores against has no record
HeadingAccumulation ==
    result.op = "headings" =>
        /\ \A i, j \in 1..Len(result.matches) :
               result.matches[i].position = result.matches[j].position
                   => i = j
        /\ \A h \in 1..Len(result.headings) :
               LET heading == result.headings[h]
                   scoring == {n \in 1..Len(args.keywords) :
                                  FracGT(PairScore(args.keywords, n, heading),
                                         Zero)}
                   records == {i \in 1..Len(result.matches) :
                                  result.matches[i].position = heading.position}
               IN  IF scoring = {} THEN records = {}
                   ELSE \E i \in records :
                            /\ result.matches[i].score =
                                   ScoreSum(args.keywords, Len(args.keywords),
                                            heading)
                            /\ Range(result.matches[i].keywords) =
                                   {args.keywords[n] : n \in scoring}
                            /\ Len(result.matches[i].keywords) =
                                   Cardinality(scoring)

\* C21 - per-pair content score of _search_in_content: the contribution of
\* a keyword to a paragraph is 1 when the lowercased keyword is a substring
\* of the lowercased paragraph; otherwise 0.5 + ratio/200 when fuzzy
\* matching is enabled, the paragraph is shorter than 500 characters and
\* ratio >= threshold; otherwise 0.  A contribution of the fuzzy rule alone
\* is strictly less than the 1 of a substring hit.
ContentScoreRule ==
    result.op = "para_score" =>
        LET k == ToLower(args.keyword)
            p == ToLower(args.paragraph)
        IN  IF IsSubstring(p, k) THEN result.score = One
            ELSE /\ FracGT(One, result.score)
                 /\ result.score =
                        IF args.use_fuzzy /\ Len(args.paragraph) < 500
                        THEN LET ratio == Ratio100(k, p)
                             IN  IF FracGE(ratio, Frac(args.fuzzy_threshold, 1))
                                 THEN FracAdd(Frac(1, 2),
                                              Frac(ratio[1], 200 * ratio[2]))
                                 ELSE Zero
                        ELSE Zero

\* the fuzzy rule gave the contribution of a paragraph of 499 characters
\* that does not hold the keyword
ContentScoreWitness ==
    /\ result.op = "para_score"
    /\ args.use_fuzzy
    /\ Len(args.paragraph) = 499
    /\ ~IsSubstring(ToLower(args.paragraph), ToLower(args.keyword))
    /\ FracGT(result.score, Zero)

\* C22 - in knowledge-voice-navigator2.py and tag-v3.0 too, a paragraph that
\* literally contains the lowercased keyword receives the contribution 1 for
\* that keyword, whether fuzzy matching is enabled or not and whatever the
\* paragraph length, the similarity ratio and the threshold are
LiteralHitScoresOne ==
    (/\ result.op = "para_score_v2"
     /\ IsSubstring(ToLower(args.paragraph), ToLower(args.keyword)))
    => result.score = One

\* the window of paragraph around the occurrence at offset o of a keyword
\* of n characters
SnippetWindow(paragraph, o, n) ==
    LET first == Max({0, o - 40})
        last == Min({Len(paragraph), o + n + 60})
    IN  (IF first > 0 THEN Ellipsis ELSE <<>>)
        \o Slice(paragraph, first, last)
        \o (IF last < Len(paragraph) THEN Ellipsis ELSE <<>>)

\* the snippet of a content record: its text after the label and " - "
RecordSnippet(m) == SubSeq(m.text, Len(UntitledLabel) + 4, Len(m.text))

\* C23 - snippet of a paragraph longer than 100 characters: the snippet is
\* the window from max(0, o - 40) to min(len, o + keyword length + 60)
\* around the first case-insensitive occurrence o of a matched keyword of
\* the record, with "..." before it iff the window starts after offset 0
\* and after it iff it ends before the paragraph's end; the fallback, the
\* first 100 characters and "...", is used only when none of the record's
\* matched keywords occurs in the paragraph
SnippetOfRecord ==
    result.op = "content" /\ Len(args.paragraph) > 100 =>
        \A i \in 1..Len(result.matches) :
            LET m == result.matches[i]
                lower == ToLower(args.paragraph)
                occurring == {n \in 1..Len(m.keywords) :
                                 Find(lower, ToLower(m.keywords[n])) >= 0}
            IN  IF occurring = {}
                THEN RecordSnippet(m) =
                         Slice(args.paragraph, 0, 100) \o Ellipsis
                ELSE \E n \in occurring :
                         RecordSnippet(m) =
                             SnippetWindow(args.paragraph,
                                 Find(lower, ToLower(m.keywords[n])),
                                 Len(m.keywords[n]))

\* the records the search of the last run finds, before sorting and
\* truncation, with fuzzy matching disabled and enabled, everything else
\* being as in the run
FoundExact ==
    IF fuzzy_match_var
    THEN FoundMatches(last_run.keywords, knowledge_base, heading_positions,
                      FALSE, fuzzy_ratio)
    ELSE last_run.found

FoundFuzzy ==
    IF fuzzy_match_var THEN last_run.found
    ELSE FoundMatches(last_run.keywords, knowledge_base, heading_positions,
                      TRUE, fuzzy_ratio)

\* C24 - exact mode is stricter than fuzzy mode: for the same keywords,
\* document, heading list and threshold, every match location (type,
\* position) found with fuzzy matching disabled is also found with fuzzy
\* matching enabled, before truncation, with a score at least as high
ExactWithinFuzzy ==
    last_run.outcome = "computed" =>
        Once(FoundFuzzy, LAMBDA fuzzy :
            \A m \in Range(FoundExact) :
                \E f \in Range(fuzzy) :
                    /\ f.type = m.type
                    /\ f.position = m.position
                    /\ FracGE(f.score, m.score))

\* the index of the record m in the list of the records found
FoundIndex(m) == Min({n \in 1..Len(last_run.found) : last_run.found[n] = m})

\* C25 - stable tie order: in the final list, records of equal score keep
\* the relative order they had before sorting, so every heading record
\* precedes every content record of the same score and heading records of
\* the same score keep the order in which heading search produced them
StableTieOrder ==
    last_run.outcome = "computed" =>
        \A i, j \in 1..Len(current_matches) :
            (/\ i < j
             /\ current_matches[i].score = current_matches[j].score)
            => /\ FoundIndex(current_matches[i]) < FoundIndex(current_matches[j])
               /\ ~(/\ current_matches[i].type = "content"
                    /\ current_matches[j].type = "heading")

\* a heading record and a content record of the same score are shown, and
\* so are two heading records of the same score
StableTieWitness ==
    /\ last_run.outcome = "computed"
    /\ \E i, j \in 1..Len(current_matches) :
           /\ current_matches[i].score = current_matches[j].score
           /\ current_matches[i].type = "heading"
           /\ current_matches[j].type = "content"
    /\ \E i, j \in 1..Len(current_matches) :
           /\ i # j
           /\ current_matches[i].score = current_matches[j].score
           /\ current_matches[i].type = "heading"
           /\ current_matches[j].type = "heading"

\* C26: a search that is answered from the cache leaves the cache as it
\* was; a search that stores a result appends the new key after the keys
\* kept, and what it drops is nothing or exactly the entry stored earliest
CacheEvictsOldest ==
    [][/\ last_run'.outcome = "cached" => search_cache' = search_cache
       /\ last_run'.outcome = "computed" =>
            /\ search_cache' # search_cache
            /\ Len(search_cache') \in {Len(search_cache), Len(search_cache) + 1}
            /\ LET kept == SubSeq(search_cache', 1, Len(search_cache') - 1)
               IN  IF Len(search_cache') = Len(search_cache)
                   THEN kept = Tail(search_cache)
                   ELSE kept = search_cache
            /\ CacheIndex(search_cache,
                          search_cache'[Len(search_cache')].key) = 0]_vars

\* a search has stored a result and dropped the oldest entry of a cache of
\* 21: the entry of the first query is gone, the second is now the oldest
CacheEvictionWitness ==
    /\ last_run.outcome = "computed"
    /\ Len(search_cache) = CacheLimit + 1
    /\ search_cache[1].key = CacheKey(CacheQuery(2), TRUE, DefaultFuzzyRatio)
    /\ search_cache[Len(search_cache)].key[1] = last_search_query

\* C27: at most one thread is inside a recognition loop
OneRecognitionLoop ==
    Cardinality({t \in 1..MaxThreads : InLoop(t)}) <= 1

\* a loop has stopped itself: the toggle_listening it scheduled is waiting
SelfStopPending ==
    \E i \in 1..Len(after_queue) : after_queue[i].name = "toggle_listening"

\* listening is off, no thread runs and no scheduled toggle is waiting
ListeningSettled ==
    /\ ~listening
    /\ \A t \in 1..MaxThreads : ~Active(t)
    /\ ~SelfStopPending

\* C28: after a loop has stopped itself, the application comes to rest with
\* listening off, no recognition thread running and the scheduled toggle done
SelfStopSettles == SelfStopPending ~> ListeningSettled

\* C29: cancel_editing leaves the document as it was when the edit mode was
\* entered, and the heading list is the one of the document
CancelRestoresSession ==
    [][(edit_mode /\ ~edit_mode' /\ original_content' = NoOriginal)
       => /\ knowledge_base' = knowledge_base
          /\ heading_positions' =
                parse_knowledge_base(knowledge_base', knowledge_path')]_vars

\* the records in the order of the rows: heading group, then content group
RenderedRecords ==
    OfType(current_matches, "heading") \o OfType(current_matches, "content")

\* the record row i of the tree was made from
RenderedFrom(i) ==
    RenderedRecords[Cardinality({j \in 1..i : ~match_list[j].group})]

\* C30: the record a selection resolves to is the record its row shows
SelectionShowsRecord ==
    selected.item # 0 =>
        current_matches[selected.match + 1] = RenderedFrom(selected.item)

====
